---------------------------- MODULE Spec2Model ----------------------------
(***************************************************************************)
(* gemini-translator: the bounded concurrency executor (promisePool.js),   *)
(* the retry wrapper (withRetry), the Markdown segmenter (parseMarkdown /  *)
(* serializeMarkdown) and the Markdown repair loop of main().              *)
(*                                                                         *)
(* Each component has its own specification over its own variables:        *)
(*   PoolSpec   promisePool(tasks, concurrency)                            *)
(*   RetrySpec  withRetry(asyncFunction, maxAttempts)                      *)
(*   SegSpec    serializeMarkdown(parseMarkdown(content, bytesPerChunk))   *)
(*   Spec       main(): summary, first pass, format check loop, output     *)
(*   VerifySpec checkMarkdownFormat(originalBlocks, translatedBlocks)      *)
(*   DispatchSpec  main(): one pass of tasks run by promisePool            *)
(*   FairSpec   Spec with every enabled step of main() eventually taken    *)
(*   ProtectorSpec  translateMarkdownBlockLineByLine(blockText)            *)
(*   ChunkerSpec    parseMarkdown(content) of main.js, line by line        *)
(*   ExtractSpec    extractMarkdownCodeBlocks(text)                        *)
(* JavaScript arrays are 0-based; a sequence s models the array a with     *)
(* s[k + 1] = a[k].                                                        *)
(***************************************************************************)
EXTENDS Integers, Sequences, FiniteSets, TLC

VARIABLES
    pool,         \* promisePool: the closure state of one call
    settleOrder,  \* promisePool: the order in which its tasks settled
    retry,        \* withRetry: the state of one call
    main,         \* main(): blocks, translatedBlocks, retryCount, ... of one run
    seg,          \* parseMarkdown / serializeMarkdown applied to one document
    verify,       \* checkMarkdownFormat: one call with its arguments and result
    dispatch,     \* main(): one pass of tasks handed to promisePool
    protector,    \* translateMarkdownBlockLineByLine: one call on one chunk text
    chunker,      \* parseMarkdown(content) of main.js on one document
    extract       \* extractMarkdownCodeBlocks(text): one call on one text

poolVars == <<pool, settleOrder>>
retryVars == <<retry>>
mainVars == <<main>>
segVars == <<seg>>
verifyVars == <<verify>>
dispatchVars == <<dispatch>>
protectorVars == <<protector>>
chunkerVars == <<chunker>>
extractVars == <<extract>>
vars == <<pool, settleOrder, retry, main, seg, verify, dispatch, protector, chunker, extract>>

\* The value of a component's variables in the specifications of the others.
Unused == [unused |-> TRUE]

(***************************************************************************)
(* Bounds of the model.                                                    *)
(***************************************************************************)
MaxTasks == 4
MaxConcurrency == 3
MaxAttemptsBound == 4
MaxChunks == 2
MaxPieces == 3
SmallBudget == 4
LargeBudget == 40
MaxVerifyChunks == 2
MaxBatches == 3
MaxLineTasks == 4
MaxLines == 4
MaxDocLines == 5
MaxExtractLines == 4

(***************************************************************************)
(* Constants of the program.                                               *)
(***************************************************************************)
MAX_RETRY_ATTEMPTS == 10
\* The literal 3 of "if (retryCount >= 3)": the spec's batchRetryLimit.
BatchRetryLimit == 3
\* The literal 5 of "Math.min(MAX_RETRY_ATTEMPTS, 5)" in the line-by-line translator.
LineByLineRetryCap == 5
BATCH_SIZE == 10
\* promisePool(tasks, 20) and promisePool(retranslationTasks, 20)
BatchConcurrency == 20
\* promisePool(lineByLineTasks, 10)
LineByLineConcurrency == 10
\* main.js: BYTES_PER_CHUNK, and the size above which parseMarkdown starts a
\* new chunk
BYTES_PER_CHUNK == 1000
BreakThreshold == 500

(***************************************************************************)
(*                      promisePool.js: promisePool                        *)
(***************************************************************************)
\* An array slot that was never assigned (a hole of a sparse JS array).
Hole == [hole |-> TRUE]

\* The value task number t resolves with, and the error it rejects with.
TaskResult(t) == [resultOf |-> t]
TaskError(t) == [errorOf |-> t]

\* JS: arr[k] = v, extending the array with holes when k >= arr.length.
ArraySet(arr, k, v) ==
    IF k < Len(arr)
    THEN [arr EXCEPT ![k + 1] = v]
    ELSE arr \o [j \in 1..(k - Len(arr)) |-> Hole] \o <<v>>

\* resolve(value) and reject(reason) of the pool's promise: a promise settles
\* once, a later resolve or reject is ignored.
Resolve(p, v) ==
    IF p.state = "pending" THEN [p EXCEPT !.state = "resolved", !.value = v] ELSE p

Reject(p, e) ==
    IF p.state = "pending" THEN [p EXCEPT !.state = "rejected", !.reason = e] ELSE p

\* The guard of runNext's while loop.
WhileCondOffByOne(p) == p.running <= p.concurrency /\ p.i < p.tasks

WhileCond(p) == p.running < p.concurrency /\ p.i < p.tasks

\* The while loop of runNext: start tasks while there is room.
RECURSIVE LaunchLoop(_)
LaunchLoop(p) ==
    IF WhileCond(p)
    THEN LaunchLoop([p EXCEPT !.task[p.i] = "running",
                              !.i = p.i + 1,
                              !.running = p.running + 1])
    ELSE p

\* A runNext() that resolves as soon as everything was started.
RunNextWithoutWaiting(p) ==
    IF p.i = p.tasks
    THEN Resolve(p, p.results)
    ELSE LaunchLoop(p)

\* runNext(): resolve when everything was started and nothing runs, else start.
RunNext(p) ==
    IF p.i = p.tasks /\ p.running = 0
    THEN Resolve(p, p.results)
    ELSE LaunchLoop(p)

\* .then(result => { results[currentIndex] = result; running--; runNext(); })
OnFulfilledPush(p, t) ==
    RunNext([p EXCEPT !.results = Append(p.results, TaskResult(t)),
                      !.running = p.running - 1,
                      !.task[t] = "fulfilled"])

OnFulfilled(p, t) ==
    RunNext([p EXCEPT !.results = ArraySet(p.results, t, TaskResult(t)),
                      !.running = p.running - 1,
                      !.task[t] = "fulfilled"])

\* .catch(err => { reject(err); })
OnRejectedWhenIdle(p, t) ==
    LET q == [p EXCEPT !.task[t] = "rejected"]
    IN  IF \E u \in DOMAIN q.task : q.task[u] = "running"
        THEN q
        ELSE Reject(q, TaskError(t))

OnRejected(p, t) ==
    Reject([p EXCEPT !.task[t] = "rejected"], TaskError(t))

\* The state of promisePool(tasks, concurrency) before the executor has run.
NewPool(n, c) ==
    [tasks |-> n, concurrency |-> c, i |-> 0, running |-> 0, results |-> <<>>,
     state |-> "pending", value |-> <<>>, reason |-> Hole,
     task |-> [t \in 0..(n - 1) |-> "notStarted"], entered |-> FALSE]

\* settleOrder records the order in which the tasks settled (observation only).
PoolInit ==
    /\ \E n \in 0..MaxTasks, c \in 1..MaxConcurrency : pool = NewPool(n, c)
    /\ settleOrder = <<>>
    /\ retry = Unused
    /\ main = Unused
    /\ seg = Unused
    /\ verify = Unused
    /\ dispatch = Unused
    /\ protector = Unused
    /\ chunker = Unused
    /\ extract = Unused

\* The executor's first call of runNext().
PoolStart ==
    /\ ~pool.entered
    /\ pool' = RunNext([pool EXCEPT !.entered = TRUE])
    /\ UNCHANGED <<settleOrder, retryVars, mainVars, segVars, verifyVars,
                   dispatchVars, protectorVars, chunkerVars, extractVars>>

\* A running task's promise fulfils; its .then handler runs.
TaskFulfils(t) ==
    /\ pool.task[t] = "running"
    /\ pool' = OnFulfilled(pool, t)
    /\ settleOrder' = Append(settleOrder, t)
    /\ UNCHANGED <<retryVars, mainVars, segVars, verifyVars, dispatchVars,
                   protectorVars, chunkerVars, extractVars>>

\* A running task's promise rejects; the .catch handler runs.
TaskRejects(t) ==
    /\ pool.task[t] = "running"
    /\ pool' = OnRejected(pool, t)
    /\ settleOrder' = Append(settleOrder, t)
    /\ UNCHANGED <<retryVars, mainVars, segVars, verifyVars, dispatchVars,
                   protectorVars, chunkerVars, extractVars>>

PoolNext ==
    \/ PoolStart
    \/ \E t \in DOMAIN pool.task : TaskFulfils(t)
    \/ \E t \in DOMAIN pool.task : TaskRejects(t)

PoolSpec == PoolInit /\ [][PoolNext]_vars

(***************************************************************************)
(* Claims about promisePool, checked under PoolSpec.                       *)
(***************************************************************************)
TasksIn(p, st) == {t \in DOMAIN p.task : p.task[t] = st}

\* C2: when every task succeeds the pool resolves with an array of length
\* tasks.length whose element i is the result of tasks[i], whatever the order
\* in which the tasks completed.
C2_ResultsInInputOrder ==
    /\ pool.state = "resolved" =>
          /\ Len(pool.value) = pool.tasks
          /\ \A k \in 0..(pool.tasks - 1) : pool.value[k + 1] = TaskResult(k)
    /\ (pool.entered /\ TasksIn(pool, "fulfilled") = DOMAIN pool.task) =>
          pool.state = "resolved"

\* Witness of C2: a pool of at least three tasks resolved although a later
\* task completed before an earlier one.
C2_Witness ==
    /\ pool.state = "resolved"
    /\ pool.tasks >= 3
    /\ \E a, b \in 1..Len(settleOrder) : a < b /\ settleOrder[a] > settleOrder[b]

\* C3: in every reachable state the number of tasks that were started and have
\* not settled is at most the concurrency.
C3_BoundedConcurrency ==
    Cardinality(TasksIn(pool, "running")) <= pool.concurrency

\* Witness of C3: the pool is full (as many running tasks as the concurrency,
\* at least two) while tasks still wait and one task has already completed.
C3_Witness ==
    /\ Cardinality(TasksIn(pool, "running")) = pool.concurrency
    /\ pool.concurrency >= 2
    /\ pool.i < pool.tasks
    /\ TasksIn(pool, "fulfilled") # {}

\* C4 as stated: whenever a task fails, the pool's promise is rejected at that
\* moment with that task's error.
C4_RejectedWithThatTasksError ==
    [][\A t \in DOMAIN pool.task :
          (pool.task[t] = "running" /\ pool'.task[t] = "rejected") =>
              (pool'.state = "rejected" /\ pool'.reason = TaskError(t))]_poolVars

\* C4 amended: whenever a task fails, the pool's promise is rejected in the same
\* step, without waiting for the running tasks; the reason is the error of the
\* first task that failed, a later failure leaves the rejection as it is.
C4_RejectedAtFirstFailure ==
    [][\A t \in DOMAIN pool.task :
          (pool.task[t] = "running" /\ pool'.task[t] = "rejected") =>
              /\ pool'.state = "rejected"
              /\ pool.state = "pending" => pool'.reason = TaskError(t)
              /\ pool.state # "pending" =>
                    (pool.state = "rejected" /\ pool'.reason = pool.reason)]_poolVars

\* Witness of C4: the pool is rejected with the error of a failed task while
\* another task is still running, and a second task has failed after the first.
C4_Witness ==
    /\ pool.state = "rejected"
    /\ TasksIn(pool, "running") # {}
    /\ Cardinality(TasksIn(pool, "rejected")) >= 2
    /\ \E t \in TasksIn(pool, "rejected") : pool.reason = TaskError(t)

\* C5: after a task has failed no further task is started: a task that was not
\* started when some task had failed stays not started.
C5_NoStartAfterFailure ==
    [][\A t \in DOMAIN pool.task :
          (TasksIn(pool, "rejected") # {} /\ pool.task[t] = "notStarted") =>
              pool'.task[t] = "notStarted"]_poolVars

\* C28: the pool's promise settles at most once and consistently: it is
\* resolved only in a state where every task has been started and has
\* succeeded, once a task has failed it is not resolved, and a settled promise
\* keeps its state, value and reason whatever the remaining tasks do.
C28_SettlesOnceConsistently ==
    /\ [](pool.state = "resolved" =>
              /\ pool.i = pool.tasks
              /\ TasksIn(pool, "fulfilled") = DOMAIN pool.task)
    /\ [](TasksIn(pool, "rejected") # {} => pool.state # "resolved")
    /\ [][pool.state # "pending" =>
              /\ pool'.state = pool.state
              /\ pool'.value = pool.value
              /\ pool'.reason = pool.reason]_poolVars

\* Witness of C28: a task failed, the tasks that were running completed after
\* it, every task has been started and none runs, and the pool is rejected.
C28_Witness ==
    /\ pool.state = "rejected"
    /\ pool.i = pool.tasks
    /\ TasksIn(pool, "running") = {}
    /\ \E a, b \in 1..Len(settleOrder) :
          /\ a < b
          /\ pool.task[settleOrder[a]] = "rejected"
          /\ pool.task[settleOrder[b]] = "fulfilled"

(***************************************************************************)
(*                               withRetry                                 *)
(***************************************************************************)
\* What asyncFunction may resolve with and reject with.
Values == {"v1", "v2"}
Errors == {"e1", "e2"}

\* for (let attempt = 1; attempt <= maxAttempts; attempt++): the loop guard.
LoopCondShort(r) == r.attempt < r.maxAttempts

LoopCond(r) == r.attempt <= r.maxAttempts

\* The top of the loop: call asyncFunction() and await it, or leave the loop
\* and throw lastError.
LoopTop(r) ==
    IF LoopCond(r)
    THEN [r EXCEPT !.pc = "awaiting", !.inflight = r.inflight + 1]
    ELSE [r EXCEPT !.pc = "thrown", !.thrown = r.lastError]

\* return await asyncFunction(): the awaited call fulfilled with v.
OnReturn(r, v) ==
    [r EXCEPT !.pc = "returned", !.returned = v, !.inflight = r.inflight - 1,
              !.calls = Append(r.calls, [ok |-> TRUE, value |-> v])]

\* catch (error): remember it, then wait attempt seconds when attempts are
\* left, else go on to the loop's increment and guard.
OnCatchKeepFirst(r, e) ==
    LET c == [r EXCEPT !.lastError = IF r.calls = <<>> THEN e ELSE r.lastError,
                       !.inflight = r.inflight - 1,
                       !.calls = Append(r.calls, [ok |-> FALSE, error |-> e])]
    IN  IF c.attempt < c.maxAttempts
        THEN [c EXCEPT !.pc = "backoff", !.delay = c.attempt]
        ELSE LoopTop([c EXCEPT !.attempt = c.attempt + 1])

OnCatch(r, e) ==
    LET c == [r EXCEPT !.lastError = e, !.inflight = r.inflight - 1,
                       !.calls = Append(r.calls, [ok |-> FALSE, error |-> e])]
    IN  IF c.attempt < c.maxAttempts
        THEN [c EXCEPT !.pc = "backoff", !.delay = c.attempt]
        ELSE LoopTop([c EXCEPT !.attempt = c.attempt + 1])

\* The timer of the backoff fired: attempt++ and back to the loop's guard.
AfterBackoff(r) == LoopTop([r EXCEPT !.attempt = r.attempt + 1])

\* withRetry(asyncFunction, maxAttempts) at its entry: let lastError; attempt = 1.
\* calls lists the settled invocations of asyncFunction in order (observation).
NewRetry(m) ==
    [maxAttempts |-> m, attempt |-> 1, pc |-> "entry", lastError |-> "undefined",
     inflight |-> 0, calls |-> <<>>, returned |-> "none", thrown |-> "none",
     delay |-> 0]

RetryInit ==
    /\ \E m \in 1..MaxAttemptsBound : retry = NewRetry(m)
    /\ pool = Unused
    /\ settleOrder = Unused
    /\ main = Unused
    /\ seg = Unused
    /\ verify = Unused
    /\ dispatch = Unused
    /\ protector = Unused
    /\ chunker = Unused
    /\ extract = Unused

RetryEnter ==
    /\ retry.pc = "entry"
    /\ retry' = LoopTop(retry)
    /\ UNCHANGED <<poolVars, mainVars, segVars, verifyVars, dispatchVars,
                   protectorVars, chunkerVars, extractVars>>

FnFulfils(v) ==
    /\ retry.pc = "awaiting"
    /\ retry' = OnReturn(retry, v)
    /\ UNCHANGED <<poolVars, mainVars, segVars, verifyVars, dispatchVars,
                   protectorVars, chunkerVars, extractVars>>

FnRejects(e) ==
    /\ retry.pc = "awaiting"
    /\ retry' = OnCatch(retry, e)
    /\ UNCHANGED <<poolVars, mainVars, segVars, verifyVars, dispatchVars,
                   protectorVars, chunkerVars, extractVars>>

BackoffElapses ==
    /\ retry.pc = "backoff"
    /\ retry' = AfterBackoff(retry)
    /\ UNCHANGED <<poolVars, mainVars, segVars, verifyVars, dispatchVars,
                   protectorVars, chunkerVars, extractVars>>

RetryNext ==
    \/ RetryEnter
    \/ \E v \in Values : FnFulfils(v)
    \/ \E e \in Errors : FnRejects(e)
    \/ BackoffElapses

RetrySpec == RetryInit /\ [][RetryNext]_vars

(***************************************************************************)
(* Claims about withRetry, checked under RetrySpec.                        *)
(***************************************************************************)
\* C6: withRetry invokes f one attempt at a time and at most maxAttempts times;
\* it returns the value of the first successful invocation and invokes nothing
\* after it; it throws only after maxAttempts failed invocations in a row, and
\* throws the error of the last one.
C6_RetryContract ==
    /\ retry.inflight \in {0, 1}
    /\ Len(retry.calls) + retry.inflight <= retry.maxAttempts
    /\ \A k \in 1..(Len(retry.calls) - 1) : ~retry.calls[k].ok
    /\ (\E k \in 1..Len(retry.calls) : retry.calls[k].ok) =>
          /\ retry.pc = "returned"
          /\ retry.inflight = 0
    /\ retry.pc = "returned" =>
          /\ retry.calls # <<>>
          /\ retry.calls[Len(retry.calls)].ok
          /\ retry.returned = retry.calls[Len(retry.calls)].value
    /\ retry.pc = "thrown" =>
          /\ Len(retry.calls) = retry.maxAttempts
          /\ \A k \in 1..Len(retry.calls) : ~retry.calls[k].ok
          /\ retry.thrown = retry.calls[Len(retry.calls)].error
    /\ retry.pc = "backoff" => retry.delay = Len(retry.calls)

\* Witness of C6: withRetry threw after three or more failed invocations whose
\* first and last errors differ.
C6_Witness ==
    /\ retry.pc = "thrown"
    /\ retry.maxAttempts >= 3
    /\ retry.calls[1].error # retry.thrown

(***************************************************************************)
(*                 parseMarkdown and serializeMarkdown                     *)
(* A string is the sequence of its characters (or, in Spec, of opaque      *)
(* pieces of content); '' is <<>>.                                         *)
(***************************************************************************)
\* Positions are JS string indices: the character at index p of s is s[p + 1],
\* and s.slice(a, b) is SubSeq(s, a + 1, b).
Slice(s, a, b) == SubSeq(s, a + 1, b)

SliceFrom(s, a) == SubSeq(s, a + 1, Len(s))

\* s has the literal lit at index p.
HasAt(s, p, lit) == p >= 0 /\ p + Len(lit) <= Len(s) /\ Slice(s, p, p + Len(lit)) = lit

MinOf(S) == CHOOSE x \in S : \A y \in S : x <= y

\* Buffer.byteLength(text, 'utf8'): every character of the documents modelled
\* here is ASCII, one byte each.
ByteLength(s) == Len(s)

\* content.replace(/\r\n/g, '\n')
RECURSIVE NormalizeLineEndings(_)
NormalizeLineEndings(s) ==
    IF s = <<>> THEN <<>>
    ELSE IF HasAt(s, 0, <<"\r", "\n">>)
         THEN <<"\n">> \o NormalizeLineEndings(SliceFrom(s, 2))
         ELSE <<s[1]>> \o NormalizeLineEndings(SliceFrom(s, 1))

\* A TLA+ string cannot hold the backtick character: this stands for it.
Backtick == "[backtick]"

\* Regular expression atoms (flags m, and i for the HTML pattern).
LineTerminators == {"\n", "\r"}

\* ^ with the m flag: at index 0 or just after a line terminator.
AtLineStart(s, p) == p = 0 \/ (p <= Len(s) /\ s[p] \in LineTerminators)

\* The index at which .* stops when started at p: the next line terminator, or
\* the end of the input.
DotStarEnd(s, p) ==
    MinOf({q \in p..Len(s) : q = Len(s) \/ s[q + 1] \in LineTerminators})

\* The index after .*(?:\n|$) started at p: the rest of the line and its "\n".
AfterRestOfLine(s, p) ==
    LET e == DotStarEnd(s, p)
    IN  IF e < Len(s) /\ s[e + 1] = "\n" THEN e + 1 ELSE e

\* The index after an optional "\n" at index e (\n?).
AfterOptionalNewline(s, e) == IF e < Len(s) /\ s[e + 1] = "\n" THEN e + 1 ELSE e

NoMatch == 0 - 1

\* codeFenceRegex = /^(```|~~~)[\s\S]*?^\1\n?/gm tried at index p: the end of
\* the match, or NoMatch.
FenceOpenAt(s, p) ==
    IF HasAt(s, p, <<Backtick, Backtick, Backtick>>) THEN <<Backtick, Backtick, Backtick>>
    ELSE IF HasAt(s, p, <<"~", "~", "~">>) THEN <<"~", "~", "~">>
    ELSE <<>>

codeFenceAt(s, p) ==
    LET fence == FenceOpenAt(s, p)
        closers == {q \in (p + 3)..Len(s) : AtLineStart(s, q) /\ HasAt(s, q, fence)}
    IN  IF ~AtLineStart(s, p) \/ fence = <<>> \/ closers = {}
        THEN NoMatch
        ELSE AfterOptionalNewline(s, MinOf(closers) + 3)

\* blockquoteRegex = /^(?:>[ \t]?.*(?:\n|$))+/gm
RECURSIVE QuoteLines(_, _)
QuoteLines(s, p) ==
    IF HasAt(s, p, <<">">>)
    THEN LET e == AfterRestOfLine(s, p + 1)
         IN  IF DotStarEnd(s, p + 1) < e THEN QuoteLines(s, e) ELSE e
    ELSE p

blockquoteAt(s, p) ==
    IF AtLineStart(s, p) /\ HasAt(s, p, <<">">>) THEN QuoteLines(s, p) ELSE NoMatch

\* tableRegex = /^(?:\|.*\|(?:\n|$))+/gm : a row starts with | and ends with
\* another | just before the end of its line.
IsTableRow(s, p) ==
    /\ HasAt(s, p, <<"|">>)
    /\ DotStarEnd(s, p) >= p + 2
    /\ s[DotStarEnd(s, p)] = "|"

RECURSIVE TableRows(_, _)
TableRows(s, p) ==
    IF IsTableRow(s, p)
    THEN LET e == AfterRestOfLine(s, p)
         IN  IF DotStarEnd(s, p) < e THEN TableRows(s, e) ELSE e
    ELSE p

tableAt(s, p) ==
    IF AtLineStart(s, p) /\ IsTableRow(s, p) THEN TableRows(s, p) ELSE NoMatch

\* latexRegex = /^\$\$[\s\S]*?\$\$\n?/gm
latexAt(s, p) ==
    LET closers == {q \in (p + 2)..Len(s) : HasAt(s, q, <<"$", "$">>)}
    IN  IF ~AtLineStart(s, p) \/ ~HasAt(s, p, <<"$", "$">>) \/ closers = {}
        THEN NoMatch
        ELSE AfterOptionalNewline(s, MinOf(closers) + 2)

\* listRegex =
\* /^(?:(?:[ ]{0,3}(?:[-*+]|\d+\.))[ \t]+.*(?:\n|$)(?:[ \t].*(?:\n|$))*)+/gm
Digits == {"0", "1", "2", "3", "4", "5", "6", "7", "8", "9"}

\* The number of characters of class S that s has from index p on.
RECURSIVE RunLength(_, _, _)
RunLength(s, p, S) ==
    IF p < Len(s) /\ s[p + 1] \in S THEN 1 + RunLength(s, p + 1, S) ELSE 0

\* The index after the list marker ([-*+] or \d+\.) at index p, or NoMatch.
MarkerEnd(s, p) ==
    IF p < Len(s) /\ s[p + 1] \in {"-", "*", "+"}
    THEN p + 1
    ELSE LET d == RunLength(s, p, Digits)
         IN  IF d > 0 /\ HasAt(s, p + d, <<".">>) THEN p + d + 1 ELSE NoMatch

\* [ ]{0,3}(?:[-*+]|\d+\.)[ \t]+ matches at index p.
IsListItemLine(s, p) ==
    LET indent == RunLength(s, p, {" "})
        m == MarkerEnd(s, p + indent)
    IN  indent <= 3 /\ m # NoMatch /\ m < Len(s) /\ s[m + 1] \in {" ", "\t"}

\* (?:[ \t].*(?:\n|$))* from index p: the lines that start with a blank.
RECURSIVE ContinuationLines(_, _)
ContinuationLines(s, p) ==
    IF p < Len(s) /\ s[p + 1] \in {" ", "\t"}
    THEN LET e == AfterRestOfLine(s, p)
         IN  IF DotStarEnd(s, p) < e THEN ContinuationLines(s, e) ELSE e
    ELSE p

RECURSIVE ListItems(_, _)
ListItems(s, p) ==
    IF IsListItemLine(s, p)
    THEN LET e == AfterRestOfLine(s, p)
         IN  IF DotStarEnd(s, p) < e THEN ListItems(s, ContinuationLines(s, e)) ELSE e
    ELSE p

listAt(s, p) ==
    IF AtLineStart(s, p) /\ IsListItemLine(s, p) THEN ListItems(s, p) ELSE NoMatch

\* htmlTagRegex =
\* /^(?:<([a-z][a-z0-9]*)\b[^>]*>[\s\S]*?<\/\1>|<[a-z][a-z0-9]*\b[^>]*\/>)\n?/gmi
LowerCase == <<"a", "b", "c", "d", "e", "f", "g", "h", "i", "j", "k", "l", "m",
               "n", "o", "p", "q", "r", "s", "t", "u", "v", "w", "x", "y", "z">>
UpperCase == <<"A", "B", "C", "D", "E", "F", "G", "H", "I", "J", "K", "L", "M",
               "N", "O", "P", "Q", "R", "S", "T", "U", "V", "W", "X", "Y", "Z">>
Letters == {LowerCase[k] : k \in DOMAIN LowerCase} \cup {UpperCase[k] : k \in DOMAIN UpperCase}

\* Case folding of the i flag.
Fold(c) ==
    IF \E k \in DOMAIN UpperCase : UpperCase[k] = c
    THEN LowerCase[CHOOSE k \in DOMAIN UpperCase : UpperCase[k] = c]
    ELSE c

FoldAll(s) == [k \in 1..Len(s) |-> Fold(s[k])]

\* The end of the tag name ([a-z][a-z0-9]*\b) that starts at index p, or NoMatch.
TagNameEnd(s, p) ==
    LET e == p + RunLength(s, p, Letters \cup Digits)
    IN  IF p < Len(s) /\ s[p + 1] \in Letters /\ ~HasAt(s, e, <<"_">>) THEN e ELSE NoMatch

htmlTagAt(s, p) ==
    IF ~AtLineStart(s, p) \/ ~HasAt(s, p, <<"<">>) \/ TagNameEnd(s, p + 1) = NoMatch
    THEN NoMatch
    ELSE LET nameEnd == TagNameEnd(s, p + 1)
             closing == <<"<", "/">> \o FoldAll(Slice(s, p + 1, nameEnd)) \o <<">">>
             gts == {q \in nameEnd..(Len(s) - 1) : s[q + 1] = ">"}
             gt == MinOf(gts)
             ends == {q \in (gt + 1)..Len(s) : HasAt(FoldAll(s), q, closing)}
         IN  IF gts = {} THEN NoMatch
             ELSE IF ends # {} THEN AfterOptionalNewline(s, MinOf(ends) + Len(closing))
             ELSE IF gt > nameEnd /\ s[gt] = "/" THEN AfterOptionalNewline(s, gt + 1)
             ELSE NoMatch

\* The patterns in the order of the patterns array.
patterns == <<"codeFence", "list", "blockquote", "table", "htmlTag", "latex">>

MatchAt(regex, s, p) ==
    CASE regex = "codeFence" -> codeFenceAt(s, p)
      [] regex = "list" -> listAt(s, p)
      [] regex = "blockquote" -> blockquoteAt(s, p)
      [] regex = "table" -> tableAt(s, p)
      [] regex = "htmlTag" -> htmlTagAt(s, p)
      [] regex = "latex" -> latexAt(s, p)

\* while ((match = regex.exec(content)) !== null) from lastIndex on: the
\* matches of one pattern, left to right, each search starting where the
\* previous match ended.
RECURSIVE ExecAll(_, _, _)
ExecAll(regex, s, lastIndex) ==
    LET starts == {q \in lastIndex..Len(s) : MatchAt(regex, s, q) # NoMatch}
    IN  IF starts = {}
        THEN <<>>
        ELSE LET start == MinOf(starts)
                 end == MatchAt(regex, s, start)
             IN  <<[start |-> start, end |-> end, text |-> Slice(s, start, end)]>>
                 \o ExecAll(regex, s, end)

RECURSIVE ExtractBlocks(_, _)
ExtractBlocks(s, k) ==
    IF k > Len(patterns) THEN <<>>
    ELSE ExecAll(patterns[k], s, 0) \o ExtractBlocks(s, k + 1)

\* extractedBlocks.sort((a, b) => a.start - b.start): a stable sort.
InsertByStart(sorted, b) ==
    LET n == Cardinality({k \in 1..Len(sorted) : sorted[k].start <= b.start})
    IN  SubSeq(sorted, 1, n) \o <<b>> \o SubSeq(sorted, n + 1, Len(sorted))

RECURSIVE SortByStart(_)
SortByStart(bs) ==
    IF bs = <<>> THEN <<>>
    ELSE InsertByStart(SortByStart(SubSeq(bs, 1, Len(bs) - 1)), bs[Len(bs)])

\* An overlap filter that also drops a block starting exactly at lastEnd.
KeepsBlockStrict(block, lastEnd) == block.start > lastEnd

\* The overlap filter: keep a block iff it starts at or after lastEnd.
KeepsBlock(block, lastEnd) == block.start >= lastEnd

RECURSIVE FilterOverlaps(_, _, _)
FilterOverlaps(bs, k, lastEnd) ==
    IF k > Len(bs) THEN <<>>
    ELSE IF KeepsBlock(bs[k], lastEnd)
         THEN <<bs[k]>> \o FilterOverlaps(bs, k + 1, bs[k].end)
         ELSE FilterOverlaps(bs, k + 1, lastEnd)

FinalBlocks(s) == FilterOverlaps(SortByStart(ExtractBlocks(s, 1)), 1, NoMatch)

\* The paragraph splitter works on acc = [segments, fileLeadingSep], the two
\* variables addParagraphs closes over.
\* A separator with no text before it goes to the last segment's sep, or to
\* fileLeadingSep when there is no segment yet.
AttachSeparatorDropped(acc, sep) ==
    IF Len(acc.segments) > 0
    THEN [acc EXCEPT !.segments[Len(acc.segments)].sep = @ \o sep]
    ELSE acc

AttachSeparator(acc, sep) ==
    IF Len(acc.segments) > 0
    THEN [acc EXCEPT !.segments[Len(acc.segments)].sep = @ \o sep]
    ELSE [acc EXCEPT !.fileLeadingSep = @ \o sep]

PushSegment(acc, text, sep) ==
    [acc EXCEPT !.segments = Append(@, [text |-> text, sep |-> sep])]

\* The while loop over re = /\n\n+/g on rest, with last the end of the previous
\* match, followed by the push of the tail.
RECURSIVE SplitParagraphs(_, _, _)
SplitParagraphs(acc, rest, last) ==
    LET starts == {q \in last..(Len(rest) - 2) : HasAt(rest, q, <<"\n", "\n">>)}
    IN  IF starts = {}
        THEN IF last < Len(rest)
             THEN PushSegment(acc, SliceFrom(rest, last), <<>>)
             ELSE acc
        ELSE LET index == MinOf(starts)
                 lastIndex == index + RunLength(rest, index, {"\n"})
                 text == Slice(rest, last, index)
                 sep == Slice(rest, index, lastIndex)
             IN  SplitParagraphs(IF Len(text) > 0
                                 THEN PushSegment(acc, text, sep)
                                 ELSE AttachSeparator(acc, sep),
                                 rest, lastIndex)

\* addParagraphs(part)
addParagraphs(acc, part) ==
    IF part = <<>> THEN acc
    ELSE LET n == RunLength(part, 0, {"\n"})
             leading == IF n >= 2 THEN Slice(part, 0, n) ELSE <<>>
             acc1 == IF n >= 2 THEN AttachSeparator(acc, leading) ELSE acc
             rest == SliceFrom(part, Len(leading))
         IN  IF rest = <<>> THEN acc1 ELSE SplitParagraphs(acc1, rest, 0)

\* for (const block of finalBlocks) { addParagraphs(preceding); push the block }
\* and the final addParagraphs(content.slice(cursor)).
RECURSIVE CollectSegments(_, _, _, _, _)
CollectSegments(acc, content, finalBlocks, k, cursor) ==
    IF k > Len(finalBlocks)
    THEN addParagraphs(acc, SliceFrom(content, cursor))
    ELSE CollectSegments(
             PushSegment(addParagraphs(acc, Slice(content, cursor, finalBlocks[k].start)),
                         finalBlocks[k].text, <<>>),
             content, finalBlocks, k + 1, finalBlocks[k].end)

\* The merge loop: current absorbs next while the combined size fits.
RECURSIVE MergeSegments(_, _, _, _)
MergeSegments(segments, k, current, bytesPerChunk) ==
    IF k > Len(segments)
    THEN <<current>>
    ELSE LET next == segments[k]
             combined == current.text \o current.sep \o next.text
         IN  IF ByteLength(combined) <= bytesPerChunk
             THEN MergeSegments(segments, k + 1,
                                [text |-> combined, sep |-> next.sep], bytesPerChunk)
             ELSE <<current>> \o MergeSegments(segments, k + 1, next, bytesPerChunk)

\* parseMarkdown(content, bytesPerChunk)
parseMarkdown(raw, bytesPerChunk) ==
    LET content == NormalizeLineEndings(raw)
        acc == CollectSegments([segments |-> <<>>, fileLeadingSep |-> <<>>],
                               content, FinalBlocks(content), 1, 0)
        merged == IF Len(acc.segments) > 0
                  THEN MergeSegments(acc.segments, 2, acc.segments[1], bytesPerChunk)
                  ELSE <<>>
    IN  [k \in 1..Len(merged) |->
            [index |-> k,
             text |-> merged[k].text,
             sep |-> merged[k].sep,
             leadingSep |-> IF k = 1 THEN acc.fileLeadingSep ELSE <<>>]]

\* serializeMarkdown(blocks): blocks[0].leadingSep, then every text + sep.
RECURSIVE serializeFrom(_, _)
serializeFrom(blocks, k) ==
    IF k > Len(blocks)
    THEN <<>>
    ELSE blocks[k].text \o blocks[k].sep \o serializeFrom(blocks, k + 1)

serializeMarkdown(blocks) ==
    IF Len(blocks) = 0 THEN <<>> ELSE blocks[1].leadingSep \o serializeFrom(blocks, 1)

\* The documents of the model: up to MaxPieces pieces, one after the other.
Pieces ==
    { <<"a">>, <<"\n">>, <<"\r", "\n">>, <<" ">>,
      <<Backtick, Backtick, Backtick>>,
      <<Backtick, Backtick, Backtick, "\n", "a", "\n", Backtick, Backtick, Backtick>>,
      <<"-", " ", "a">>, <<">", " ", "a">>, <<"|", "a", "|">>,
      <<"$", "$">>, <<"<", "b", ">", "a", "<", "/", "b", ">">>,
      <<"$", "$", "\n", Backtick, Backtick, Backtick, "\n", "$", "$">> }

RECURSIVE Flatten(_)
Flatten(ps) == IF ps = <<>> THEN <<>> ELSE ps[1] \o Flatten(Tail(ps))

Documents == {Flatten(ps) : ps \in UNION {[1..n -> Pieces] : n \in 0..MaxPieces}}

Budgets == {SmallBudget, LargeBudget}

SegInit ==
    /\ \E content \in Documents, bytesPerChunk \in Budgets :
          seg = [pc |-> "read", content |-> content, bytesPerChunk |-> bytesPerChunk,
                 blocks |-> <<>>, out |-> <<>>]
    /\ pool = Unused
    /\ settleOrder = Unused
    /\ retry = Unused
    /\ main = Unused
    /\ verify = Unused
    /\ dispatch = Unused
    /\ protector = Unused
    /\ chunker = Unused
    /\ extract = Unused

\* blocks = parseSubtitle(subtitleContent, 'md', argv.bytesPerChunk)
Parse ==
    /\ seg.pc = "read"
    /\ seg' = [seg EXCEPT !.pc = "parsed",
                          !.blocks = parseMarkdown(seg.content, seg.bytesPerChunk)]
    /\ UNCHANGED <<poolVars, retryVars, mainVars, verifyVars, dispatchVars,
                   protectorVars, chunkerVars, extractVars>>

\* serializeSubtitle(blocks, 'md')
Serialize ==
    /\ seg.pc = "parsed"
    /\ seg' = [seg EXCEPT !.pc = "serialized", !.out = serializeMarkdown(seg.blocks)]
    /\ UNCHANGED <<poolVars, retryVars, mainVars, verifyVars, dispatchVars,
                   protectorVars, chunkerVars, extractVars>>

SegNext == Parse \/ Serialize

SegSpec == SegInit /\ [][SegNext]_vars

(***************************************************************************)
(* Claims about the segmenter, checked under SegSpec.                      *)
(***************************************************************************)
\* C1: for every document D (after the normalization of line endings) and
\* every budget, serializeMarkdown(parseMarkdown(D, B)) equals D.
C1_RoundTrip ==
    seg.pc = "serialized" => seg.out = NormalizeLineEndings(seg.content)

\* The offset in the normalized document at which the text of chunk k starts.
ChunkStart(blocks, k) ==
    Len(blocks[1].leadingSep) + Len(serializeFrom(SubSeq(blocks, 1, k - 1), 1))

\* C20 as stated: every protected span kept by parseMarkdown (fenced code
\* block, list, blockquote, table, HTML block, display math) is the whole text
\* of exactly one chunk, for every budget: never merged with a neighbour,
\* never split.
C20_ProtectedSpanIsOneChunk ==
    seg.pc = "parsed" =>
        \A j \in 1..Len(FinalBlocks(NormalizeLineEndings(seg.content))) :
            LET span == FinalBlocks(NormalizeLineEndings(seg.content))[j]
            IN  Cardinality({k \in 1..Len(seg.blocks) :
                                /\ ChunkStart(seg.blocks, k) = span.start
                                /\ seg.blocks[k].text = span.text}) = 1

\* A position p of s sits inside one of the matches.
InsideMatch(matches, p) ==
    \E m \in 1..Len(matches) : matches[m].start <= p /\ p < matches[m].end

\* s has a line that opens a fence (``` or ~~~ at the start of a line) which no
\* later line of s closes with the same delimiter: the opening lies in no match
\* of the fence pattern over s.
HasUnterminatedFence(s) ==
    \E p \in 0..Len(s) :
        /\ AtLineStart(s, p)
        /\ FenceOpenAt(s, p) # <<>>
        /\ ~InsideMatch(ExecAll("codeFence", s, 0), p)

\* Chunk k holds an opening fence that is a fence line of the document too (at
\* the start of a line there) and that nothing in the chunk closes.
PartialFenceInChunk(s, blocks, k) ==
    \E p \in 0..Len(blocks[k].text) :
        /\ AtLineStart(blocks[k].text, p)
        /\ AtLineStart(s, ChunkStart(blocks, k) + p)
        /\ FenceOpenAt(blocks[k].text, p) # <<>>
        /\ ~InsideMatch(ExecAll("codeFence", blocks[k].text, 0), p)

\* C21 as stated: for every document in which every fence is terminated, and
\* for every budget, no chunk produced by parseMarkdown contains an opening
\* fence delimiter without its closing delimiter of the same kind in the same
\* chunk.
C21_NoPartialFence ==
    (seg.pc = "parsed" /\ ~HasUnterminatedFence(NormalizeLineEndings(seg.content))) =>
        \A k \in 1..Len(seg.blocks) :
            ~PartialFenceInChunk(NormalizeLineEndings(seg.content), seg.blocks, k)

\* The pattern matches of the document in the order the overlap filter reads
\* them.
Candidates(s) == SortByStart(ExtractBlocks(s, 1))

\* C27: the protected spans kept are pairwise non-overlapping and ordered by
\* start offset, and a candidate is kept iff its start is not before the end of
\* any span kept before it, so a later-starting candidate that overlaps a kept
\* span is discarded.
C27_KeptSpansGreedy ==
    seg.pc = "parsed" =>
        LET s == NormalizeLineEndings(seg.content)
            kept == FinalBlocks(s)
            cands == Candidates(s)
        IN  /\ \A j, k \in 1..Len(kept) :
                  j < k => /\ kept[j].start < kept[k].start
                           /\ kept[j].end <= kept[k].start
            /\ \A j \in 1..Len(kept) : \E c \in 1..Len(cands) : cands[c] = kept[j]
            /\ \A c \in 1..Len(cands) :
                  (\E j \in 1..Len(kept) : kept[j] = cands[c])
                  <=> \A j \in 1..Len(kept) :
                          kept[j].start < cands[c].start => kept[j].end <= cands[c].start

\* A document in which a later-starting candidate overlapping a kept span was
\* discarded and another span was kept.
C27_Witness ==
    /\ seg.pc = "parsed"
    /\ LET s == NormalizeLineEndings(seg.content)
           kept == FinalBlocks(s)
           cands == Candidates(s)
       IN  /\ Len(kept) >= 1
           /\ \E c \in 1..Len(cands), j \in 1..Len(kept) :
                 /\ kept[j].start < cands[c].start
                 /\ cands[c].start < kept[j].end
                 /\ \A i \in 1..Len(kept) : kept[i] # cands[c]

(***************************************************************************)
(*              main(): Markdown translation and format check loop         *)
(* The text of chunk k is one opaque piece of content; shape is what the   *)
(* first pass's classification of that text yields.  A translation is a    *)
(* piece recording the text it was made from, the pass that made it, the   *)
(* way it was made, and whether the structural fingerprints of the result  *)
(* equal those of the original (the translation capability decides that).  *)
(***************************************************************************)
Shapes == {"batch", "literal", "lineByLine"}

OriginalText(k, shape) == <<[chunk |-> k, shape |-> shape]>>

Translation(text, how, pass, intact) ==
    <<[of |-> text, how |-> how, pass |-> pass, intact |-> intact]>>

\* blocks as parseMarkdown returns them: index, text, sep, leadingSep.
BlocksOf(shapes) ==
    [k \in 1..Len(shapes) |->
        [index |-> k,
         text |-> OriginalText(k, shapes[k]),
         sep |-> IF k < Len(shapes) THEN <<"\n", "\n">> ELSE <<"\n">>,
         leadingSep |-> IF k = 1 THEN <<"\n", "\n">> ELSE <<>>]]

\* batch.map(b => b.text) over all batches: the texts of the original blocks.
TextsOfRejected(s) == [k \in 1..Len(s.translatedBlocks) |-> s.translatedBlocks[k].text]

TextsOf(s) == [k \in 1..Len(s.blocks) |-> s.blocks[k].text]

\* The first pass: a chunk is kept literally, sent with the batch, or translated
\* line by line, as its classification says.
FirstPassResult(s, intact) ==
    [k \in 1..Len(s.blocks) |->
        LET text == s.blocks[k].text
        IN  CASE text[1].shape = "literal" -> text
              [] text[1].shape = "batch" -> Translation(text, "batch", s.passes, intact[k])
              [] OTHER -> Translation(text, "lineByLine", s.passes, intact[k])]

\* Retranslation: every text that was sent comes back translated as a batch.
RetranslationResult(s, intact) ==
    [k \in 1..Len(s.sent) |-> Translation(s.sent[k], "batch", s.passes, intact[k])]

\* lineByLineTasks = blocks.map(...): the chunks the escalation works on.
OnlyMixedChunks(s) == {k \in 1..Len(s.blocks) : s.blocks[k].text[1].shape = "lineByLine"}

LineByLineChunks(s) == 1..Len(s.blocks)

\* lineByLineResults[idx]?.text || ''
LineByLineResult(s, intact) ==
    [k \in 1..Len(s.blocks) |->
        IF k \in LineByLineChunks(s)
        THEN Translation(s.blocks[k].text, "lineByLine", s.passes, intact[k])
        ELSE <<>>]

\* translatedBlocks = blocks.map((block, idx) => ({...block, text: texts[idx] || ''}))
MergeTranslatedWithoutSpread(blocks, texts) ==
    [k \in 1..Len(blocks) |->
        [index |-> k, text |-> IF k <= Len(texts) THEN texts[k] ELSE <<>>,
         sep |-> <<>>, leadingSep |-> <<>>]]

MergeTranslated(blocks, texts) ==
    [k \in 1..Len(blocks) |->
        [blocks[k] EXCEPT !.text = IF k <= Len(texts) THEN texts[k] ELSE <<>>]]

\* Whether the fingerprints of a translated text equal those of the original.
SameStructure(original, translated) ==
    \/ translated = original
    \/ translated # <<>> /\ translated[1].of = original /\ translated[1].intact

\* checkMarkdownFormat(originalBlocks, translatedBlocks): isValid and the chunks
\* with a mismatch (0 stands for the count mismatch).
checkMarkdownFormat(originalBlocks, translatedBlocks) ==
    IF Len(originalBlocks) # Len(translatedBlocks)
    THEN [isValid |-> FALSE, errors |-> {0}]
    ELSE LET errors == {k \in 1..Len(originalBlocks) :
                           ~SameStructure(originalBlocks[k].text, translatedBlocks[k].text)}
         IN  [isValid |-> errors = {}, errors |-> errors]

\* while (!formatCheckPassed && retryCount < MAX_RETRY_ATTEMPTS)
WhileGuard(s) == ~s.formatCheckPassed /\ s.retryCount < MAX_RETRY_ATTEMPTS

\* if (retryCount < MAX_RETRY_ATTEMPTS)
MayRetryAlways(s) == TRUE

MayRetryOffByOne(s) == s.retryCount <= MAX_RETRY_ATTEMPTS

MayRetry(s) == s.retryCount < MAX_RETRY_ATTEMPTS

\* if (retryCount >= 3)
UseLineByLineOnce(s) == s.retryCount = BatchRetryLimit

UseLineByLineLate(s) == s.retryCount > BatchRetryLimit

UseLineByLine(s) == s.retryCount >= BatchRetryLimit

\* fs.writeFileSync(outputPath, serializeSubtitle(translatedBlocks, ...))
WriteOutputOfOriginal(s) ==
    [s EXCEPT !.pc = "done", !.output = serializeMarkdown(s.blocks)]

WriteOutput(s) ==
    [s EXCEPT !.pc = "done", !.output = serializeMarkdown(s.translatedBlocks)]

\* The value of globalThis.translationSummary before main() has stored it.
NotWritten == <<"undefined">>

\* globalThis.translationSummary = summary
StoreSummary(s, text) ==
    [s EXCEPT !.summary = text, !.translationSummary = text,
              !.summaryWrites = s.summaryWrites + 1]

\* translateBatch: the summary it puts into the prompt (none when the global
\* is not a non-empty string).
ContextOfFirstPassOnly(s) ==
    IF s.retryCount = 0 /\ s.translationSummary # NotWritten
    THEN s.translationSummary ELSE <<>>

ContextOf(s) ==
    IF s.translationSummary # NotWritten THEN s.translationSummary ELSE <<>>

\* Math.min(MAX_RETRY_ATTEMPTS, 5)
LineByLineAttempts ==
    IF MAX_RETRY_ATTEMPTS < LineByLineRetryCap THEN MAX_RETRY_ATTEMPTS
    ELSE LineByLineRetryCap

\* The indices (from 1) of the chunks whose first-pass classification is shape.
IndicesOfShape(s, shape) ==
    SelectSeq([k \in 1..Len(s.blocks) |-> k],
              LAMBDA k : s.blocks[k].text[1].shape = shape)

\* One withRetry(() => translateBatch(texts ...), maxAttempts) of a pass: the
\* chunks whose text it sends, its attempt counter and whether it returned.
\* attempt is a local of withRetry: it is 0 once withRetry has returned.
NewCall(chunks, maxAttempts) ==
    [chunks |-> chunks, maxAttempts |-> maxAttempts, attempt |-> 1,
     returned |-> FALSE]

\* The first pass: one withRetry for textsToTranslate when it is not empty,
\* then translateMarkdownBlockLineByLine for each index of lineByLine in turn.
FirstPassCalls(s) ==
    LET batch == IndicesOfShape(s, "batch")
        mixed == IndicesOfShape(s, "lineByLine")
    IN  (IF batch # <<>> THEN <<NewCall(batch, MAX_RETRY_ATTEMPTS)>> ELSE <<>>)
        \o [j \in 1..Len(mixed) |-> NewCall(<<mixed[j]>>, LineByLineAttempts)]

\* Retranslation: texts = batch.map(b => b.text), one withRetry per batch.
RetranslationCalls(s) ==
    IF s.blocks = <<>> THEN <<>>
    ELSE <<NewCall([k \in 1..Len(s.blocks) |-> k], MAX_RETRY_ATTEMPTS)>>

\* The line-by-line pass: translateMarkdownBlockLineByLine on every block; a
\* block whose lines are all literal (a fenced code block, link reference
\* definitions) has no text to translate and makes no call.
LineByLineCalls(s) ==
    LET work == SelectSeq([k \in 1..Len(s.blocks) |-> k],
                          LAMBDA k : s.blocks[k].text[1].shape # "literal")
    IN  [j \in 1..Len(work) |-> NewCall(<<work[j]>>, LineByLineAttempts)]

\* The calls of one task run in turn; the tasks of the line-by-line pass run
\* concurrently in promisePool(lineByLineTasks, 10).
CallEnabled(s, i) ==
    /\ ~s.calls[i].returned
    /\ s.pc = "lineByLine" \/ \A j \in 1..(i - 1) : s.calls[j].returned

AllReturned(s) == \A i \in 1..Len(s.calls) : s.calls[i].returned

\* One attempt: translateBatch reads the summary and posts the texts.
\* sentLog and reads record that (observation only).
AttemptMade(s, i) ==
    [s EXCEPT !.sentLog = s.sentLog \cup
                  {[chunk |-> s.calls[i].chunks[j], pass |-> s.pc] :
                      j \in 1..Len(s.calls[i].chunks)},
              !.reads = s.reads \cup {ContextOf(s)}]

\* The errors an attempt can end with: axios.post rejects, or the callback
\* throws because result.length differs from the number of texts.
AttemptErrors == {"transport", "countMismatch"}

\* A repair pass is started: its tasks are built and handed to promisePool.
\* repairs logs each repair action with the number of failed checks and of
\* repair actions before it (observation only).
StartRepair(s, kind, sent) ==
    [s EXCEPT !.pc = kind, !.passes = s.passes + 1, !.sent = sent,
              !.calls = IF kind = "lineByLine" THEN LineByLineCalls(s)
                        ELSE RetranslationCalls(s),
              !.repairs = Append(s.repairs,
                                 [kind |-> kind, failed |-> s.failed,
                                  before |-> Len(s.repairs),
                                  retryCount |-> s.retryCount, sent |-> sent])]

\* The format check loop, from its guard up to the next await (a repair pass)
\* or to the end of main().
RECURSIVE FormatCheckLoop(_)
FormatCheckLoop(s) ==
    IF ~WhileGuard(s)
    THEN WriteOutput(s)
    ELSE LET formatCheck == checkMarkdownFormat(s.blocks, s.translatedBlocks)
             c == [s EXCEPT !.formatCheck = formatCheck,
                            !.checks = s.checks + 1,
                            !.checkedOriginal = s.blocks,
                            !.checkedTranslated = s.translatedBlocks]
         IN  IF ~formatCheck.isValid
             THEN LET f == [c EXCEPT !.retryCount = c.retryCount + 1,
                                     !.failed = c.failed + 1,
                                     !.reported = formatCheck.errors]
                  IN  IF MayRetry(f)
                      THEN IF UseLineByLine(f)
                           THEN StartRepair(f, "lineByLine",
                                            [k \in 1..Len(f.blocks) |->
                                                IF k \in LineByLineChunks(f)
                                                THEN f.blocks[k].text ELSE <<>>])
                           ELSE StartRepair(f, "retranslate", TextsOf(f))
                      ELSE FormatCheckLoop([f EXCEPT !.formatCheckPassed = TRUE,
                                                     !.forced = TRUE])
             ELSE FormatCheckLoop([c EXCEPT !.formatCheckPassed = TRUE])

NoCheck == [isValid |-> TRUE, errors |-> {}]

\* main() after parseSubtitle, awaiting the summary.
NewMain(shapes) ==
    [pc |-> "summary", blocks |-> BlocksOf(shapes), summary |-> <<>>,
     translatedBlocks |-> <<>>, retryCount |-> 0, formatCheckPassed |-> FALSE,
     formatCheck |-> NoCheck, output |-> "none",
     passes |-> 0, sent |-> <<>>, passResult |-> <<>>, repairs |-> <<>>,
     checks |-> 0, failed |-> 0, reported |-> {}, forced |-> FALSE,
     checkedOriginal |-> <<>>, checkedTranslated |-> <<>>,
     summaryAttempt |-> 1, summaryWrites |-> 0, summaryThrew |-> FALSE,
     translationSummary |-> NotWritten, calls |-> <<>>, sentLog |-> {},
     reads |-> {}, thrown |-> "none"]

ShapeLists == UNION {[1..n -> Shapes] : n \in 0..MaxChunks}

Init ==
    /\ \E shapes \in ShapeLists : main = NewMain(shapes)
    /\ pool = Unused
    /\ settleOrder = Unused
    /\ retry = Unused
    /\ seg = Unused
    /\ verify = Unused
    /\ dispatch = Unused
    /\ protector = Unused
    /\ chunker = Unused
    /\ extract = Unused

\* After the summary: it is stored in globalThis.translationSummary, the
\* batches and tasks are built and the first pass is handed to promisePool.
StartFirstPass(s, text) ==
    LET t == StoreSummary(s, text)
    IN  [t EXCEPT !.pc = "firstPass", !.passes = 1,
                  !.calls = FirstPassCalls(t),
                  !.sent = [k \in 1..Len(t.blocks) |->
                               IF t.blocks[k].text[1].shape = "literal"
                               THEN <<>> ELSE t.blocks[k].text]]

\* An attempt of the summary's withRetry returns a non-empty summary
\* (summaryAttempt, the attempt counter of that withRetry, is 0 once it returned).
SummarySettles(text) ==
    /\ main.pc = "summary"
    /\ main' = StartFirstPass([main EXCEPT !.summaryAttempt = 0], text)
    /\ UNCHANGED <<poolVars, retryVars, segVars, verifyVars, dispatchVars,
                   protectorVars, chunkerVars, extractVars>>

\* catch (e) { summary = ''; } around the summary's withRetry.
OnSummaryRethrow(s) == [s EXCEPT !.pc = "aborted", !.summaryThrew = TRUE]

OnSummaryCatch(s) == StartFirstPass([s EXCEPT !.summaryThrew = TRUE], <<>>)

\* An attempt of the summary's withRetry fails (axios.post rejects, or the
\* result is empty and the callback throws): the next attempt follows, or
\* withRetry throws after MAX_RETRY_ATTEMPTS attempts and main() catches it.
SummaryAttemptFails ==
    /\ main.pc = "summary"
    /\ main' = IF main.summaryAttempt < MAX_RETRY_ATTEMPTS
               THEN [main EXCEPT !.summaryAttempt = main.summaryAttempt + 1]
               ELSE OnSummaryCatch(main)
    /\ UNCHANGED <<poolVars, retryVars, segVars, verifyVars, dispatchVars,
                   protectorVars, chunkerVars, extractVars>>

AwaitedPasses == {"firstPass", "retranslate", "lineByLine"}

\* An attempt of call i returns an array of the right length: withRetry
\* returns it.
TranslateBatchReturns(i) ==
    /\ main.pc \in AwaitedPasses
    /\ CallEnabled(main, i)
    /\ main' = [AttemptMade(main, i) EXCEPT !.calls[i].returned = TRUE,
                                            !.calls[i].attempt = 0]
    /\ UNCHANGED <<poolVars, retryVars, segVars, verifyVars, dispatchVars,
                   protectorVars, chunkerVars, extractVars>>

\* An attempt of call i fails while attempts remain: withRetry retries.
AttemptFails(i, error) ==
    /\ main.pc \in AwaitedPasses
    /\ CallEnabled(main, i)
    /\ main.calls[i].attempt < main.calls[i].maxAttempts
    /\ main' = [AttemptMade(main, i) EXCEPT
                   !.calls[i].attempt = main.calls[i].attempt + 1]
    /\ UNCHANGED <<poolVars, retryVars, segVars, verifyVars, dispatchVars,
                   protectorVars, chunkerVars, extractVars>>

\* The pool of the pass that is awaited resolves: translatedBlocks is rebuilt
\* from its results and the format check loop runs up to the next await.
PassResolves(result) ==
    main' = FormatCheckLoop([main EXCEPT
                !.passResult = result,
                !.translatedBlocks = MergeTranslated(main.blocks, result)])

FirstPassResolves(intact) ==
    /\ main.pc = "firstPass"
    /\ AllReturned(main)
    /\ PassResolves(FirstPassResult(main, intact))
    /\ UNCHANGED <<poolVars, retryVars, segVars, verifyVars, dispatchVars,
                   protectorVars, chunkerVars, extractVars>>

RetranslationResolves(intact) ==
    /\ main.pc = "retranslate"
    /\ AllReturned(main)
    /\ PassResolves(RetranslationResult(main, intact))
    /\ UNCHANGED <<poolVars, retryVars, segVars, verifyVars, dispatchVars,
                   protectorVars, chunkerVars, extractVars>>

LineByLineResolves(intact) ==
    /\ main.pc = "lineByLine"
    /\ AllReturned(main)
    /\ PassResolves(LineByLineResult(main, intact))
    /\ UNCHANGED <<poolVars, retryVars, segVars, verifyVars, dispatchVars,
                   protectorVars, chunkerVars, extractVars>>

\* The last attempt of call i fails: withRetry throws the error, the task
\* rejects, the pool of the pass that is awaited rejects, the await throws and
\* nothing in main() or around main() catches it.
PoolRejects(i, error) ==
    /\ main.pc \in AwaitedPasses
    /\ CallEnabled(main, i)
    /\ main.calls[i].attempt = main.calls[i].maxAttempts
    /\ main' = [AttemptMade(main, i) EXCEPT !.pc = "aborted", !.thrown = error]
    /\ UNCHANGED <<poolVars, retryVars, segVars, verifyVars, dispatchVars,
                   protectorVars, chunkerVars, extractVars>>

IntactChoices == [1..Len(main.blocks) -> BOOLEAN]

Next ==
    \/ SummarySettles(<<"summary">>)
    \/ SummaryAttemptFails
    \/ \E i \in 1..Len(main.calls) : TranslateBatchReturns(i)
    \/ \E i \in 1..Len(main.calls), error \in AttemptErrors : AttemptFails(i, error)
    \/ \E intact \in IntactChoices : FirstPassResolves(intact)
    \/ \E intact \in IntactChoices : RetranslationResolves(intact)
    \/ \E intact \in IntactChoices : LineByLineResolves(intact)
    \/ \E i \in 1..Len(main.calls), error \in AttemptErrors : PoolRejects(i, error)

Spec == Init /\ [][Next]_vars

\* The same program when every callback that is ready to run is run: the
\* event loop handles every settled promise, and every request to the
\* translation service is answered or fails.
FairSpec == Init /\ [][Next]_vars /\ WF_vars(Next)

(***************************************************************************)
(* Claims about the format check loop, checked under Spec.                 *)
(***************************************************************************)
\* The texts of the original chunks, in order.
OriginalTexts == [k \in 1..Len(main.blocks) |-> main.blocks[k].text]

\* C7: every repair action taken before the third failed verification is a
\* full-batch retranslation, and the repair action taken directly after the
\* third failed verification is the line-by-line translation.
C7_EscalationBoundary ==
    \A k \in 1..Len(main.repairs) :
        /\ main.repairs[k].failed < BatchRetryLimit => main.repairs[k].kind = "retranslate"
        /\ main.repairs[k].failed = BatchRetryLimit => main.repairs[k].kind = "lineByLine"

\* Witness of C7: three verifications failed and the repair action that
\* followed the third is under way.
C7_Witness ==
    /\ main.failed = BatchRetryLimit
    /\ Len(main.repairs) = BatchRetryLimit
    /\ main.pc = "lineByLine"

\* C8 as stated: a failed verification found while fewer than batchRetryLimit
\* repair actions have been performed is answered by a full-batch retranslation
\* of all original chunk texts.
C8_BatchWhileAttemptBelowLimit ==
    \A k \in 1..Len(main.repairs) :
        main.repairs[k].before < BatchRetryLimit =>
            /\ main.repairs[k].kind = "retranslate"
            /\ main.repairs[k].sent = OriginalTexts

FirstLineByLine(repairs) ==
    CHOOSE k \in 1..Len(repairs) :
        /\ repairs[k].kind = "lineByLine"
        /\ \A j \in 1..(k - 1) : repairs[j].kind # "lineByLine"

\* C8 amended: a failed verification found while fewer than batchRetryLimit - 1
\* repair actions have been performed is answered by incrementing the counter
\* and retranslating, as a full batch, all original chunk texts (never the
\* rejected translation); so batchRetryLimit - 1 full-batch retranslations come
\* before the first line-by-line pass.
C8_BatchWhileAttemptBelowLimitMinusOne ==
    /\ \A k \in 1..Len(main.repairs) :
          main.repairs[k].before < BatchRetryLimit - 1 =>
              /\ main.repairs[k].kind = "retranslate"
              /\ main.repairs[k].retryCount = main.repairs[k].before + 1
              /\ main.repairs[k].sent = OriginalTexts
    /\ (\E k \in 1..Len(main.repairs) : main.repairs[k].kind = "lineByLine") =>
          FirstLineByLine(main.repairs) = BatchRetryLimit
    /\ \A k \in 1..Len(main.translatedBlocks) :
          LET text == main.translatedBlocks[k].text
          IN  (text # main.blocks[k].text /\ text # <<>>) => text[1].of = main.blocks[k].text

\* Witness of C8: the second full-batch retranslation is under way after a
\* rejected translation, and what was sent is the original texts.
C8_Witness ==
    /\ main.pc = "retranslate"
    /\ Len(main.repairs) = BatchRetryLimit - 1
    /\ main.sent = OriginalTexts
    /\ Len(main.blocks) >= 2
    /\ main.translatedBlocks # main.blocks

\* C9: every line-by-line repair pass (taken at a failed verification with
\* batchRetryLimit <= retryCount < maxAttempts) works on every chunk, whatever
\* the chunk's first routing was, and the verification that follows compares
\* the original chunks with the result of that pass only.
C9_LineByLineCoversEveryChunk ==
    /\ \A k \in 1..Len(main.repairs) :
          main.repairs[k].kind = "lineByLine" =>
              /\ BatchRetryLimit <= main.repairs[k].retryCount
              /\ main.repairs[k].retryCount < MAX_RETRY_ATTEMPTS
              /\ main.repairs[k].sent = OriginalTexts
    /\ (/\ main.repairs # <<>>
        /\ main.repairs[Len(main.repairs)].kind = "lineByLine"
        /\ main.checks = Len(main.repairs) + 1) =>
          /\ main.checkedOriginal = main.blocks
          /\ Len(main.checkedTranslated) = Len(main.blocks)
          /\ \A k \in 1..Len(main.blocks) :
                /\ main.checkedTranslated[k].text = main.passResult[k]
                /\ main.passResult[k] # <<>>
                /\ main.passResult[k][1].how = "lineByLine"
                /\ main.passResult[k][1].pass = Len(main.repairs) + 1
                /\ main.passResult[k][1].of = main.blocks[k].text

\* Witness of C9: a line-by-line pass over a batch chunk and a literal chunk
\* has been verified.
C9_Witness ==
    /\ main.repairs # <<>>
    /\ main.repairs[Len(main.repairs)].kind = "lineByLine"
    /\ main.checks = Len(main.repairs) + 1
    /\ \E a, b \in 1..Len(main.blocks) :
          /\ main.blocks[a].text[1].shape = "batch"
          /\ main.blocks[b].text[1].shape = "literal"

\* C10: when every verification reports invalid, the loop makes exactly
\* maxAttempts verifications and ends: no translation is started after the
\* last one, the translation of the last repair action is accepted by force,
\* the outstanding mismatches are reported, and the output is written from
\* that translation.
C10_ForcedAcceptAfterMaxAttempts ==
    /\ main.checks <= MAX_RETRY_ATTEMPTS
    /\ (main.checks = MAX_RETRY_ATTEMPTS /\ main.failed = main.checks) =>
          /\ main.pc = "done"
          /\ main.forced
    /\ (main.pc = "done" /\ main.failed = main.checks) =>
          /\ main.checks = MAX_RETRY_ATTEMPTS
          /\ Len(main.repairs) = MAX_RETRY_ATTEMPTS - 1
          /\ main.passes = Len(main.repairs) + 1
          /\ main.forced
          /\ main.reported = main.formatCheck.errors
          /\ main.reported # {}
          /\ main.translatedBlocks = MergeTranslated(main.blocks, main.passResult)
          /\ \A k \in 1..Len(main.blocks) : main.passResult[k][1].pass = main.passes
          /\ main.checkedTranslated = main.translatedBlocks
          /\ main.output = serializeMarkdown(main.translatedBlocks)

\* Witness of C10: the run ended after maxAttempts failed verifications.
C10_Witness ==
    /\ main.pc = "done"
    /\ main.failed = MAX_RETRY_ATTEMPTS
    /\ main.checks = MAX_RETRY_ATTEMPTS
    /\ main.output # <<>>

\* C11: whenever a verification reports valid, the loop ends at once: main() is
\* done, no repair pass was started after the pass that was verified, and the
\* output is written from exactly the chunk set that was verified.
C11_ValidEndsLoop ==
    (main.checks > 0 /\ main.formatCheck.isValid) =>
        /\ main.pc = "done"
        /\ ~main.forced
        /\ main.passes = Len(main.repairs) + 1
        /\ main.checks = Len(main.repairs) + 1
        /\ main.checkedOriginal = main.blocks
        /\ main.checkedTranslated = main.translatedBlocks
        /\ main.output = serializeMarkdown(main.checkedTranslated)

\* Witness of C11: a verification that followed a repair pass reported valid
\* for a document with a translated chunk.
C11_Witness ==
    /\ main.pc = "done"
    /\ main.formatCheck.isValid
    /\ main.checks >= 2
    /\ \E k \in 1..Len(main.blocks) : main.translatedBlocks[k].text # main.blocks[k].text

\* C12 as stated: whatever the translation capability does, the processing of
\* the document ends with the output written and never with an aborted run.
C12_NeverAborted == main.pc # "aborted"

\* C13: the summary is stored in globalThis.translationSummary exactly once,
\* before any translation call is made; its value never changes afterwards,
\* and every translation call of every pass reads that value.
C13_SummaryWrittenOnce ==
    /\ [](/\ main.summaryWrites <= 1
          /\ main.pc = "summary" =>
                /\ main.summaryWrites = 0
                /\ main.sentLog = {}
                /\ main.reads = {}
          /\ main.pc # "summary" => main.summaryWrites = 1
          /\ main.summaryWrites = 1 => main.translationSummary # NotWritten
          /\ main.reads \subseteq {main.translationSummary})
    /\ [][main.summaryWrites = 1 =>
             /\ main'.summaryWrites = 1
             /\ main'.translationSummary = main.translationSummary]_mainVars

\* Witness of C13: translation calls of the first pass and of a line-by-line
\* repair pass have read a non-empty summary.
C13_Witness ==
    /\ main.translationSummary = <<"summary">>
    /\ main.reads # {}
    /\ \E e \in main.sentLog : e.pass = "firstPass"
    /\ \E e \in main.sentLog : e.pass = "lineByLine"

\* C14: when every attempt of the summary fails, the run is not aborted by
\* it: the summary is the empty string, the first pass is started and its
\* translation calls get no context.
C14_SummaryFailureDegrades ==
    main.summaryThrew =>
        /\ main.summaryAttempt = MAX_RETRY_ATTEMPTS
        /\ main.summary = <<>>
        /\ main.translationSummary = <<>>
        /\ main.passes >= 1
        /\ main.reads \subseteq {<<>>}
        /\ main.pc = "aborted" => main.thrown \in AttemptErrors

\* Witness of C14: the summary failed on every attempt and the document was
\* translated and written all the same.
C14_Witness ==
    /\ main.summaryThrew
    /\ main.pc = "done"
    /\ main.sentLog # {}
    /\ \E k \in 1..Len(main.blocks) : main.translatedBlocks[k].text # main.blocks[k].text

\* C15 as stated: a result whose length differs from the number of texts sent
\* is never accepted and never fatal; it is a failed attempt that is retried.
C15_CountMismatchNeverFatal ==
    /\ main.pc = "aborted" => main.thrown # "countMismatch"
    /\ main.translatedBlocks # <<>> => Len(main.passResult) = Len(main.blocks)

\* C17 as stated: a literal-passthrough chunk is never sent to the translation
\* capability in any pass, and only such chunks are passed through untranslated.
C17_LiteralNeverSent ==
    /\ \A e \in main.sentLog : main.blocks[e.chunk].text[1].shape # "literal"
    /\ \A k \in 1..Len(main.translatedBlocks) :
          main.translatedBlocks[k].text = main.blocks[k].text =>
              main.blocks[k].text[1].shape = "literal"

\* C19: in every translated chunk set each chunk keeps the index, the sep
\* and the leadingSep of the original chunk, only text is replaced, and the
\* original chunk list is never modified.
C19_OnlyTextReplaced ==
    /\ [](\A k \in 1..Len(main.translatedBlocks) :
            /\ Len(main.translatedBlocks) = Len(main.blocks)
            /\ main.translatedBlocks[k].index = main.blocks[k].index
            /\ main.translatedBlocks[k].sep = main.blocks[k].sep
            /\ main.translatedBlocks[k].leadingSep = main.blocks[k].leadingSep
            /\ DOMAIN main.translatedBlocks[k] = DOMAIN main.blocks[k])
    /\ [][main'.blocks = main.blocks]_mainVars

\* Witness of C19: after a retranslation and a line-by-line pass the chunks
\* carry translated text and the separators of the original.
C19_Witness ==
    /\ Len(main.blocks) >= 2
    /\ \E k \in 1..Len(main.repairs) : main.repairs[k].kind = "lineByLine"
    /\ main.checks = Len(main.repairs) + 1
    /\ main.translatedBlocks[1].leadingSep # <<>>
    /\ \A k \in 1..Len(main.blocks) : main.translatedBlocks[k].text # main.blocks[k].text

\* C29: the repair strategy only escalates: once a line-protected repair pass
\* has been performed no full-batch retranslation is performed afterwards, and
\* the failure counter never decreases.
C29_OnlyEscalates ==
    /\ [](\A a, b \in 1..Len(main.repairs) :
              (a < b /\ main.repairs[a].kind = "lineByLine") =>
                  /\ main.repairs[b].kind = "lineByLine"
                  /\ main.repairs[a].retryCount < main.repairs[b].retryCount)
    /\ [][/\ main'.retryCount >= main.retryCount
          /\ (\E a \in 1..Len(main.repairs) : main.repairs[a].kind = "lineByLine") =>
                 main'.pc # "retranslate"]_mainVars

\* Witness of C29: full-batch retranslations were followed by several
\* line-protected passes, and the run went on to its end.
C29_Witness ==
    /\ main.pc = "done"
    /\ Len(main.repairs) >= 4
    /\ main.repairs[1].kind = "retranslate"
    /\ main.repairs[Len(main.repairs) - 1].kind = "lineByLine"
    /\ main.repairs[Len(main.repairs)].kind = "lineByLine"

\* C30: the repair loop terminates for every sequence of verifier outcomes:
\* provided every translation pass it starts completes (main() is not aborted),
\* main() reaches its end; there are at most maxAttempts verification passes
\* and at most maxAttempts - 1 repair passes; the k-th repair pass starts in
\* the step in which the k-th verification completes with a failure, and no
\* verification runs while a repair pass is awaited.
C30_RepairLoopTerminates ==
    /\ ([](main.pc # "aborted")) => <>(main.pc = "done")
    /\ [](/\ main.checks <= MAX_RETRY_ATTEMPTS
          /\ Len(main.repairs) <= MAX_RETRY_ATTEMPTS - 1
          /\ \A k \in 1..Len(main.repairs) : main.repairs[k].failed = k
          /\ main.pc \in {"retranslate", "lineByLine"} =>
                 main.checks = Len(main.repairs))
    /\ [][/\ Len(main'.repairs) > Len(main.repairs) =>
                 /\ main'.checks = main.checks + 1
                 /\ Len(main'.repairs) = Len(main.repairs) + 1]_mainVars

\* Witness of C30: the loop ended after the greatest number of verification
\* passes and repair passes.
C30_Witness ==
    /\ main.pc = "done"
    /\ main.checks = MAX_RETRY_ATTEMPTS
    /\ Len(main.repairs) = MAX_RETRY_ATTEMPTS - 1
    /\ main.passes = MAX_RETRY_ATTEMPTS

(***************************************************************************)
(*                      checkMarkdownFormat, one call                      *)
(* A chunk text is represented here by what the five extract functions     *)
(* return on it: its headers, list items, code blocks, links and special   *)
(* syntax entries.                                                         *)
(***************************************************************************)
NoStructure ==
    [headers |-> <<>>, lists |-> <<>>, codeBlocks |-> <<>>, links |-> <<>>,
     special |-> <<>>]

VerifyTexts ==
    { NoStructure,
      [NoStructure EXCEPT !.headers = <<[level |-> 1]>>],
      [NoStructure EXCEPT !.headers = <<[level |-> 2]>>],
      [NoStructure EXCEPT !.lists = <<[type |-> "unordered", level |-> 1]>>],
      [NoStructure EXCEPT !.links = <<[type |-> "inline", url |-> "u", ref |-> ""]>>] }

extractMarkdownHeaders(text) == text.headers
extractMarkdownLists(text) == text.lists
extractMarkdownCodeBlocks(text) == text.codeBlocks
extractMarkdownLinks(text) == text.links
extractMarkdownSpecialSyntax(text) == text.special

\* The number of extract calls made for one pair of chunks.
ExtractionsPerPair == 10

RECURSIVE ConcatAll(_)
ConcatAll(seqs) == IF seqs = <<>> THEN <<>> ELSE Head(seqs) \o ConcatAll(Tail(seqs))

FormatError(i, category, kind) == <<[chunk |-> i, category |-> category, kind |-> kind]>>

\* a.url && b.url && a.url !== b.url
BothSetAndDiffer(a, b) == a # "" /\ b # "" /\ a # b

\* The comparison of one category of chunk i: a count error when the lists
\* differ in length, else the errors of each position.
CompareHeaders(i, a, b) ==
    IF Len(a) # Len(b)
    THEN FormatError(i, "headers", "count")
    ELSE ConcatAll([j \in 1..Len(a) |->
             IF a[j].level # b[j].level
             THEN FormatError(i, "headers", "level") ELSE <<>>])

CompareLists(i, a, b) ==
    IF Len(a) # Len(b)
    THEN FormatError(i, "lists", "count")
    ELSE ConcatAll([j \in 1..Len(a) |->
             (IF a[j].type # b[j].type
              THEN FormatError(i, "lists", "type") ELSE <<>>)
             \o (IF a[j].level # b[j].level
                 THEN FormatError(i, "lists", "level") ELSE <<>>)])

CompareCodeBlocks(i, a, b) ==
    IF Len(a) # Len(b)
    THEN FormatError(i, "codeBlocks", "count")
    ELSE ConcatAll([j \in 1..Len(a) |->
             (IF a[j].language # b[j].language
              THEN FormatError(i, "codeBlocks", "language") ELSE <<>>)
             \o (IF a[j].type # b[j].type
                 THEN FormatError(i, "codeBlocks", "type") ELSE <<>>)])

CompareLinks(i, a, b) ==
    IF Len(a) # Len(b)
    THEN FormatError(i, "links", "count")
    ELSE ConcatAll([j \in 1..Len(a) |->
             (IF BothSetAndDiffer(a[j].url, b[j].url)
              THEN FormatError(i, "links", "url") ELSE <<>>)
             \o (IF a[j].type # b[j].type
                 THEN FormatError(i, "links", "type") ELSE <<>>)
             \o (IF BothSetAndDiffer(a[j].ref, b[j].ref)
                 THEN FormatError(i, "links", "ref") ELSE <<>>)])

CompareSpecial(i, a, b) ==
    IF Len(a) # Len(b)
    THEN FormatError(i, "special", "count")
    ELSE ConcatAll([j \in 1..Len(a) |->
             IF a[j].type # b[j].type
             THEN FormatError(i, "special", "type") ELSE <<>>])

\* The body of the for loop over the chunks, for chunk i (from 1).
CompareChunk(i, original, translated) ==
    CompareHeaders(i, extractMarkdownHeaders(original),
                   extractMarkdownHeaders(translated))
    \o CompareLists(i, extractMarkdownLists(original),
                    extractMarkdownLists(translated))
    \o CompareCodeBlocks(i, extractMarkdownCodeBlocks(original),
                         extractMarkdownCodeBlocks(translated))
    \o CompareLinks(i, extractMarkdownLinks(original),
                    extractMarkdownLinks(translated))
    \o CompareSpecial(i, extractMarkdownSpecialSyntax(original),
                      extractMarkdownSpecialSyntax(translated))

\* The for loop over the first n chunks: the errors, and the number of
\* extract calls made (observation only).
CompareChunks(originalBlocks, translatedBlocks, n) ==
    [errors |-> ConcatAll([i \in 1..n |->
                    CompareChunk(i, originalBlocks[i].text, translatedBlocks[i].text)]),
     extracted |-> n * ExtractionsPerPair]

\* if (originalBlocks.length !== translatedBlocks.length) { ...; return ... }
OnLengthMismatchThenCompare(originalBlocks, translatedBlocks) ==
    LET n == IF Len(originalBlocks) < Len(translatedBlocks)
             THEN Len(originalBlocks) ELSE Len(translatedBlocks)
        c == CompareChunks(originalBlocks, translatedBlocks, n)
    IN  [isValid |-> FALSE,
         errors |-> FormatError(0, "blocks", "count") \o c.errors,
         extracted |-> c.extracted]

OnLengthMismatch(originalBlocks, translatedBlocks) ==
    [isValid |-> FALSE, errors |-> FormatError(0, "blocks", "count"), extracted |-> 0]

\* checkMarkdownFormat(originalBlocks, translatedBlocks) with its errors in
\* order and the count of extract calls.
checkMarkdownFormatCall(originalBlocks, translatedBlocks) ==
    IF Len(originalBlocks) # Len(translatedBlocks)
    THEN OnLengthMismatch(originalBlocks, translatedBlocks)
    ELSE LET c == CompareChunks(originalBlocks, translatedBlocks, Len(originalBlocks))
         IN  [isValid |-> c.errors = <<>>, errors |-> c.errors,
              extracted |-> c.extracted]

VerifyBlocks ==
    UNION {[1..n -> [text : VerifyTexts]] : n \in 0..MaxVerifyChunks}

VerifyInit ==
    /\ \E originalBlocks \in VerifyBlocks, translatedBlocks \in VerifyBlocks :
          verify = [pc |-> "called", originalBlocks |-> originalBlocks,
                    translatedBlocks |-> translatedBlocks,
                    result |-> [isValid |-> TRUE, errors |-> <<>>, extracted |-> 0]]
    /\ pool = Unused
    /\ settleOrder = Unused
    /\ retry = Unused
    /\ main = Unused
    /\ seg = Unused
    /\ dispatch = Unused
    /\ protector = Unused
    /\ chunker = Unused
    /\ extract = Unused

\* checkMarkdownFormat runs and returns.
CheckFormat ==
    /\ verify.pc = "called"
    /\ verify' = [verify EXCEPT
                     !.pc = "returned",
                     !.result = checkMarkdownFormatCall(verify.originalBlocks,
                                                        verify.translatedBlocks)]
    /\ UNCHANGED <<poolVars, retryVars, mainVars, segVars, dispatchVars,
                   protectorVars, chunkerVars, extractVars>>

VerifyNext == CheckFormat

VerifySpec == VerifyInit /\ [][VerifyNext]_vars

(***************************************************************************)
(* Claims about checkMarkdownFormat, checked under VerifySpec.             *)
(***************************************************************************)
\* C16: for chunk lists of different lengths checkMarkdownFormat returns
\* isValid = false with exactly one error, the count mismatch, and extracts no
\* fingerprint of any chunk.
C16_LengthMismatchShortCircuit ==
    (/\ verify.pc = "returned"
     /\ Len(verify.originalBlocks) # Len(verify.translatedBlocks)) =>
        /\ ~verify.result.isValid
        /\ Len(verify.result.errors) = 1
        /\ verify.result.errors[1].category = "blocks"
        /\ verify.result.extracted = 0

\* Witness of C16: the call returned for lists of different lengths whose
\* common chunks differ in structure.
C16_Witness ==
    /\ verify.pc = "returned"
    /\ Len(verify.originalBlocks) = 2
    /\ Len(verify.translatedBlocks) = 1
    /\ verify.originalBlocks[1].text.headers # verify.translatedBlocks[1].text.headers

(***************************************************************************)
(*          main(): one pass of tasks handed to promisePool                *)
(* The first pass, a retranslation pass or a line-by-line pass at the      *)
(* level of its tasks: the tasks run in promisePool (see above), complete  *)
(* in any order, and main() rebuilds translatedBlocks from the pool's      *)
(* value.                                                                  *)
(***************************************************************************)
ShapeCycle == <<"batch", "literal", "lineByLine">>

\* The classification of chunk k in a document whose shapes start at offset.
ShapeAt(k, offset) == ShapeCycle[((k + offset) % Len(ShapeCycle)) + 1]

DispatchBlocks(n, offset) == BlocksOf([k \in 1..n |-> ShapeAt(k, offset)])

\* A slot of new Array(n) that was never assigned.
TextHole == <<Hole>>

\* for (let i = 0; i < blocks.length; i += BATCH_SIZE) batches.push(blocks.slice(i, i + BATCH_SIZE))
NumBatches(blocks) == (Len(blocks) + BATCH_SIZE - 1) \div BATCH_SIZE

BatchOf(blocks, b) ==
    SubSeq(blocks, b * BATCH_SIZE + 1,
           IF (b + 1) * BATCH_SIZE < Len(blocks) THEN (b + 1) * BATCH_SIZE
           ELSE Len(blocks))

\* The positions (from 1) in texts of the chunks of each category.
PositionsOfShape(texts, shape) ==
    SelectSeq([k \in 1..Len(texts) |-> k], LAMBDA k : texts[k][1].shape = shape)

\* translations = new Array(texts.length), then filled by index
FillAt(arr, positions, values) ==
    [k \in 1..Len(arr) |->
        IF \E j \in 1..Len(positions) : positions[j] = k
        THEN values[CHOOSE j \in 1..Len(positions) : positions[j] = k]
        ELSE arr[k]]

\* What a first-pass task returns: the batch translations, the literals and
\* the line-by-line translations, each at the index of its text.
FirstPassTranslationsByCategory(texts) ==
    LET indexMap == PositionsOfShape(texts, "batch")
        keepLiteral == PositionsOfShape(texts, "literal")
        lineByLine == PositionsOfShape(texts, "lineByLine")
    IN  [j \in 1..Len(indexMap) |-> Translation(texts[indexMap[j]], "batch", 1, TRUE)]
        \o [j \in 1..Len(keepLiteral) |-> texts[keepLiteral[j]]]
        \o [j \in 1..Len(lineByLine) |->
               Translation(texts[lineByLine[j]], "lineByLine", 1, TRUE)]

FirstPassTranslations(texts) ==
    LET indexMap == PositionsOfShape(texts, "batch")
        keepLiteral == PositionsOfShape(texts, "literal")
        lineByLine == PositionsOfShape(texts, "lineByLine")
        translatedTexts == [j \in 1..Len(indexMap) |->
                               Translation(texts[indexMap[j]], "batch", 1, TRUE)]
        empty == [k \in 1..Len(texts) |-> TextHole]
        withBatch == FillAt(empty, indexMap, translatedTexts)
        withLiterals == FillAt(withBatch, keepLiteral,
                               [j \in 1..Len(keepLiteral) |-> texts[keepLiteral[j]]])
    IN  FillAt(withLiterals, lineByLine,
               [j \in 1..Len(lineByLine) |->
                   Translation(texts[lineByLine[j]], "lineByLine", 1, TRUE)])

\* What a retranslation task returns: the result of translateBatch(texts).
RetranslationTranslations(texts) ==
    [k \in 1..Len(texts) |-> Translation(texts[k], "batch", 2, TRUE)]

\* The number of tasks of a pass and the concurrency of its pool.
NumTasks(d) ==
    IF d.kind = "lineByLine" THEN Len(d.blocks) ELSE NumBatches(d.blocks)

ConcurrencyOf(kind) ==
    IF kind = "lineByLine" THEN LineByLineConcurrency ELSE BatchConcurrency

\* The value task t (from 0) of the pass fulfils with.
TaskValue(d, t) ==
    LET texts == [k \in 1..Len(BatchOf(d.blocks, t)) |-> BatchOf(d.blocks, t)[k].text]
    IN  CASE d.kind = "firstPass" -> FirstPassTranslations(texts)
          [] d.kind = "retranslate" -> RetranslationTranslations(texts)
          [] OTHER -> [idx |-> t,
                       text |-> Translation(d.blocks[t + 1].text, "lineByLine", 4, TRUE)]

\* The array the pool resolved with: element t + 1 is the value of task t.
PoolValue(d, p) ==
    [k \in 1..Len(p.value) |->
        IF p.value[k] = Hole THEN TextHole ELSE TaskValue(d, p.value[k].resultOf)]

\* allTranslations.flat(): the elements of the arrays in order, holes dropped.
Flat(arrays) ==
    ConcatAll([k \in 1..Len(arrays) |->
                  SelectSeq(arrays[k], LAMBDA x : x # TextHole)])

\* translatedBlocks after the pass, rebuilt from the pool's value.
Rebuild(d, p) ==
    IF d.kind = "lineByLine"
    THEN MergeTranslated(d.blocks,
                         [k \in 1..Len(p.value) |->
                             IF p.value[k] = Hole THEN <<>>
                             ELSE TaskValue(d, p.value[k].resultOf).text])
    ELSE MergeTranslated(d.blocks, Flat(PoolValue(d, p)))

BlockCounts(kind) ==
    IF kind = "lineByLine" THEN 0..MaxLineTasks
    ELSE {0, 1} \cup {b * BATCH_SIZE + r : b \in 1..(MaxBatches - 1), r \in {0, 1}}

DispatchInit ==
    /\ \E kind \in AwaitedPasses, offset \in 0..(Len(ShapeCycle) - 1) :
          \E n \in BlockCounts(kind) :
            LET d == [kind |-> kind, blocks |-> DispatchBlocks(n, offset),
                      pc |-> "awaiting", translatedBlocks |-> <<>>]
            IN  /\ dispatch = d
                /\ pool = NewPool(NumTasks(d), ConcurrencyOf(kind))
    /\ settleOrder = <<>>
    /\ retry = Unused
    /\ main = Unused
    /\ seg = Unused
    /\ verify = Unused
    /\ protector = Unused
    /\ chunker = Unused
    /\ extract = Unused

\* await promisePool(...) returns: translatedBlocks is rebuilt.
PoolResolved ==
    /\ dispatch.pc = "awaiting"
    /\ pool.state = "resolved"
    /\ dispatch' = [dispatch EXCEPT !.pc = "rebuilt",
                                    !.translatedBlocks = Rebuild(dispatch, pool)]
    /\ UNCHANGED <<poolVars, retryVars, mainVars, segVars, verifyVars,
                   protectorVars, chunkerVars, extractVars>>

\* await promisePool(...) throws: main() ends without a result.
PoolRejected ==
    /\ dispatch.pc = "awaiting"
    /\ pool.state = "rejected"
    /\ dispatch' = [dispatch EXCEPT !.pc = "aborted"]
    /\ UNCHANGED <<poolVars, retryVars, mainVars, segVars, verifyVars,
                   protectorVars, chunkerVars, extractVars>>

DispatchNext ==
    \/ PoolStart
    \/ \E t \in DOMAIN pool.task : TaskFulfils(t)
    \/ \E t \in DOMAIN pool.task : TaskRejects(t)
    \/ PoolResolved
    \/ PoolRejected

DispatchSpec == DispatchInit /\ [][DispatchNext]_vars

(***************************************************************************)
(* Claims about a pass of tasks, checked under DispatchSpec.               *)
(***************************************************************************)
\* C18: after a pass the translated chunk list is as long as the original
\* list, and its entry i is the result for original chunk i: the original
\* text for a chunk the pass keeps literally, else a translation made from
\* the text of chunk i in the way the pass routes that chunk, whatever the
\* order in which the tasks completed.
C18_ReassembledByIndex ==
    dispatch.pc = "rebuilt" =>
        /\ Len(dispatch.translatedBlocks) = Len(dispatch.blocks)
        /\ \A i \in 1..Len(dispatch.blocks) :
              LET original == dispatch.blocks[i].text
                  text == dispatch.translatedBlocks[i].text
                  route == IF dispatch.kind = "firstPass" THEN original[1].shape
                           ELSE IF dispatch.kind = "retranslate" THEN "batch"
                           ELSE "lineByLine"
              IN  IF route = "literal"
                  THEN text = original
                  ELSE /\ text # <<>>
                       /\ text[1].of = original
                       /\ text[1].how = route

\* Witness of C18: a first pass of three batches whose tasks completed out of
\* order has been rebuilt.
C18_Witness ==
    /\ dispatch.pc = "rebuilt"
    /\ dispatch.kind = "firstPass"
    /\ NumBatches(dispatch.blocks) >= 3
    /\ \E a, b \in 1..Len(settleOrder) : a < b /\ settleOrder[a] > settleOrder[b]

(***************************************************************************)
(*        translateMarkdownBlockLineByLine(blockText, apiKey, model)       *)
(* One call on one chunk text: the lines are classified, the texts of the  *)
(* translatable lines are sent as one batch through withRetry, and the     *)
(* chunk is put together again from the items.                             *)
(***************************************************************************)
\* \s of a regular expression and the characters trim() strips, among the
\* characters of the chunk texts of the model.
WhiteSpace == {" ", "\t", "\r", "\n"}

\* \w
WordChars == Letters \cup Digits \cup {"_"}

\* content.split('\n')
RECURSIVE SplitLines(_)
SplitLines(s) ==
    LET breaks == {k \in 1..Len(s) : s[k] = "\n"}
    IN  IF breaks = {} THEN <<s>>
        ELSE <<SubSeq(s, 1, MinOf(breaks) - 1)>>
             \o SplitLines(SubSeq(s, MinOf(breaks) + 1, Len(s)))

\* outLines.join('\n')
RECURSIVE JoinLines(_)
JoinLines(ls) ==
    IF Len(ls) = 0 THEN <<>>
    ELSE IF Len(ls) = 1 THEN ls[1]
    ELSE ls[1] \o <<"\n">> \o JoinLines(Tail(ls))

\* The number of characters of class S that s ends with.
RECURSIVE TrailingRunLength(_, _, _)
TrailingRunLength(s, n, S) ==
    IF n > 0 /\ s[n] \in S THEN 1 + TrailingRunLength(s, n - 1, S) ELSE 0

\* raw.trim()
Trim(s) ==
    LET a == RunLength(s, 0, WhiteSpace)
    IN  IF a = Len(s) THEN <<>>
        ELSE SubSeq(s, a + 1, Len(s) - TrailingRunLength(s, Len(s), WhiteSpace))

\* (.*)$ from index p: matches iff no line terminator follows, and then takes
\* the rest of the line.
RestToEnd(s, p) == \A k \in (p + 1)..Len(s) : s[k] \notin LineTerminators

\* raw.replace(/^\s*>+\s*/, '').trim()
StripQuoteMarkers(raw) ==
    LET a == RunLength(raw, 0, WhiteSpace)
        g == RunLength(raw, a, {">"})
        b == RunLength(raw, a + g, WhiteSpace)
    IN  IF g > 0 THEN Trim(SliceFrom(raw, a + g + b)) ELSE Trim(raw)

\* stripped.match(/^(```|~~~)/)
fenceMatch(raw) == FenceOpenAt(StripQuoteMarkers(raw), 0) # <<>>

\* Each of the following gives the length of the first group (the prefix) of
\* its pattern on raw, or NoMatch.
\* raw.match(/^(\s*#{1,6}\s+)(.*)$/)
headerMatch(raw) ==
    LET a == RunLength(raw, 0, WhiteSpace)
        h == RunLength(raw, a, {"#"})
        w == RunLength(raw, a + h, WhiteSpace)
    IN  IF h >= 1 /\ h <= 6 /\ w >= 1 /\ RestToEnd(raw, a + h + w)
        THEN a + h + w ELSE NoMatch

\* raw.match(/^(\s*(?:[-*+]|\d+\.)\s+)(.*)$/)
listMatch(raw) ==
    LET a == RunLength(raw, 0, WhiteSpace)
        m == MarkerEnd(raw, a)
        w == IF m = NoMatch THEN 0 ELSE RunLength(raw, m, WhiteSpace)
    IN  IF m # NoMatch /\ w >= 1 /\ RestToEnd(raw, m + w) THEN m + w ELSE NoMatch

\* raw.match(/^(\s*>\s*\[!\w+\]\s*)(.*)$/)
calloutMatch(raw) ==
    LET a == RunLength(raw, 0, WhiteSpace)
        b == RunLength(raw, a + 1, WhiteSpace)
        n == RunLength(raw, a + 1 + b + 2, WordChars)
        e == a + 1 + b + 2 + n + 1
        c == RunLength(raw, e, WhiteSpace)
    IN  IF /\ HasAt(raw, a, <<">">>)
           /\ HasAt(raw, a + 1 + b, <<"[", "!">>)
           /\ n >= 1
           /\ HasAt(raw, e - 1, <<"]">>)
           /\ RestToEnd(raw, e + c)
        THEN e + c ELSE NoMatch

\* raw.match(/^(\s*>\s*)(.*)$/)
quoteMatch(raw) ==
    LET a == RunLength(raw, 0, WhiteSpace)
        b == RunLength(raw, a + 1, WhiteSpace)
    IN  IF HasAt(raw, a, <<">">>) /\ RestToEnd(raw, a + 1 + b)
        THEN a + 1 + b ELSE NoMatch

\* /^(\s*MMM\s*\w+\s*)(.*)$/ for a three character marker MMM.
ContainerMatch(raw, marker) ==
    LET a == RunLength(raw, 0, WhiteSpace)
        b == RunLength(raw, a + 3, WhiteSpace)
        n == RunLength(raw, a + 3 + b, WordChars)
        c == RunLength(raw, a + 3 + b + n, WhiteSpace)
    IN  IF HasAt(raw, a, marker) /\ n >= 1 /\ RestToEnd(raw, a + 3 + b + n + c)
        THEN a + 3 + b + n + c ELSE NoMatch

\* raw.match(/^(\s*:::\s*\w+\s*)(.*)$/)
vuepressMatch(raw) == ContainerMatch(raw, <<":", ":", ":">>)

\* raw.match(/^(\s*!!!\s*\w+\s*)(.*)$/)
admonitionMatch(raw) == ContainerMatch(raw, <<"!", "!", "!">>)

\* isLinkRefLine = (line) => /^(\s*)\[[^\]]+\]:\s+\S/.test(line)
isLinkRefLine(raw) ==
    LET a == RunLength(raw, 0, WhiteSpace)
        n == Cardinality({k \in (a + 1)..(Len(raw) - 1) :
                             \A j \in (a + 1)..k : raw[j + 1] # "]"})
        e == a + 1 + n
        w == RunLength(raw, e + 2, WhiteSpace)
    IN  /\ HasAt(raw, a, <<"[">>)
        /\ n >= 1
        /\ HasAt(raw, e, <<"]", ":">>)
        /\ w >= 1
        /\ e + 2 + w < Len(raw)

literalItem(raw) == [kind |-> "literal", text |-> raw]

\* An item whose prefix lost the blanks around its marker.
translateItemTrimmedPrefix(raw, prefixLen) ==
    [kind |-> "translate", prefix |-> Trim(Slice(raw, 0, prefixLen)),
     text |-> SliceFrom(raw, prefixLen)]

translateItem(raw, prefixLen) ==
    [kind |-> "translate", prefix |-> Slice(raw, 0, prefixLen),
     text |-> SliceFrom(raw, prefixLen)]

\* The prefix patterns in the order in which the loop body tries them.
PrefixMatches(raw) ==
    <<headerMatch(raw), listMatch(raw), calloutMatch(raw), quoteMatch(raw),
      vuepressMatch(raw), admonitionMatch(raw)>>

\* The item pushed for a line that is outside front-matter and fences.
ProseItem(raw) ==
    LET ms == PrefixMatches(raw)
        hits == {k \in 1..Len(ms) : ms[k] # NoMatch}
    IN  IF hits # {} THEN translateItem(raw, ms[MinOf(hits)])
        ELSE IF Trim(raw) = <<>> THEN literalItem(raw)
        ELSE IF isLinkRefLine(raw) THEN literalItem(raw)
        ELSE translateItem(raw, 0)

\* The body of the for loop over lines, from line i (0-based) on, with the
\* loop's flags inFrontmatter and inCodeBlock.
RECURSIVE ClassifyLines(_, _, _, _)
ClassifyLines(lines, i, inFrontmatter, inCodeBlock) ==
    IF i >= Len(lines) THEN <<>>
    ELSE LET raw == lines[i + 1]
             trimmed == Trim(raw)
         IN  IF i = 0 /\ trimmed = <<"-", "-", "-">>
             THEN <<literalItem(raw)>> \o ClassifyLines(lines, i + 1, TRUE, inCodeBlock)
             ELSE IF inFrontmatter
             THEN <<literalItem(raw)>>
                  \o ClassifyLines(lines, i + 1,
                                   ~(trimmed = <<"-", "-", "-">> /\ i # 0), inCodeBlock)
             ELSE IF fenceMatch(raw)
             THEN <<literalItem(raw)>> \o ClassifyLines(lines, i + 1, FALSE, ~inCodeBlock)
             ELSE IF inCodeBlock
             THEN <<literalItem(raw)>> \o ClassifyLines(lines, i + 1, FALSE, TRUE)
             ELSE <<ProseItem(raw)>> \o ClassifyLines(lines, i + 1, FALSE, FALSE)

\* items, for blockText
ItemsOf(blockText) ==
    ClassifyLines(SplitLines(NormalizeLineEndings(blockText)), 0, FALSE, FALSE)

\* items.filter(x => x.kind === 'translate').map(x => x.text)
TranslatableTexts(items) ==
    LET F[k \in 0..Len(items)] ==
            IF k = 0 THEN <<>>
            ELSE IF items[k].kind = "translate" THEN Append(F[k - 1], items[k].text)
            ELSE F[k - 1]
    IN  F[Len(items)]

\* translatedParts[ti] || '' : a missing element gives the empty string.
PartAt(translatedParts, ti) ==
    IF ti < Len(translatedParts) THEN translatedParts[ti + 1] ELSE <<>>

\* The number of translatable items before item k: the value of ti when the
\* map callback reaches item k.
TranslatableBefore(items, k) ==
    Cardinality({j \in 1..(k - 1) : items[j].kind = "translate"})

\* A re-zip that reads translatedParts at the item's own index.
OutLinesByItemIndex(items, translatedParts) ==
    [k \in 1..Len(items) |->
        IF items[k].kind = "literal" THEN items[k].text
        ELSE items[k].prefix \o PartAt(translatedParts, k - 1)]

\* items.map(x => x.kind === 'literal' ? x.text : (x.prefix + (translatedParts[ti++] || '')))
OutLines(items, translatedParts) ==
    [k \in 1..Len(items) |->
        IF items[k].kind = "literal" THEN items[k].text
        ELSE items[k].prefix \o PartAt(translatedParts, TranslatableBefore(items, k))]

\* return outLines.join('\n')
ReturnOutput(p, translatedParts) ==
    [p EXCEPT !.pc = "returned", !.attempt = 0, !.translatedParts = translatedParts,
              !.out = JoinLines(OutLines(p.items, translatedParts))]

\* The lines the chunk texts of the model are made of.
LineChoices ==
    { <<Backtick, Backtick, Backtick>>, <<"~", "~", "~">>, <<"a">>, <<>>,
      <<"#", " ", "a">>, <<"-", " ", "b">>, <<">", " ", "c">>, <<"-", "-", "-">>,
      <<"[", "a", "]", ":", " ", "u">> }

ChunkTexts == {JoinLines(ls) : ls \in UNION {[1..n -> LineChoices] : n \in 1..MaxLines}}

\* What translateBatch may return for the batch texts: every text unchanged,
\* a translation of every text, empty strings, strings that hold a line break,
\* or an array that is too short.
PositionMark == <<"1", "2", "3", "4", "5", "6", "7", "8", "9">>

BatchResults(texts) ==
    { texts,
      [k \in 1..Len(texts) |-> <<"T", PositionMark[k]>>],
      [k \in 1..Len(texts) |-> <<>>],
      [k \in 1..Len(texts) |-> <<"T", "\n", PositionMark[k]>>],
      SubSeq(texts, 1, Len(texts) - 1) }

NewProtector(blockText) ==
    [pc |-> "called", blockText |-> blockText, items |-> <<>>,
     textsToTranslate |-> <<>>, attempt |-> 0, sent |-> <<>>,
     translatedParts |-> <<>>, out |-> <<>>]

ProtectorInit ==
    /\ \E blockText \in ChunkTexts : protector = NewProtector(blockText)
    /\ pool = Unused
    /\ settleOrder = Unused
    /\ retry = Unused
    /\ main = Unused
    /\ seg = Unused
    /\ verify = Unused
    /\ dispatch = Unused
    /\ chunker = Unused
    /\ extract = Unused

\* The call up to its first await: the lines are classified; with nothing to
\* translate the function returns, else withRetry makes the first call of
\* translateBatch(textsToTranslate, ...).  sent is the batch handed to the
\* latest call of translateBatch, empty as long as there was no call.
ClassifyAndSend ==
    /\ protector.pc = "called"
    /\ LET items == ItemsOf(protector.blockText)
           texts == TranslatableTexts(items)
           p == [protector EXCEPT !.items = items, !.textsToTranslate = texts]
       IN  protector' =
               IF Len(texts) > 0
               THEN [p EXCEPT !.pc = "awaiting", !.attempt = 1, !.sent = texts]
               ELSE ReturnOutput(p, <<>>)
    /\ UNCHANGED <<poolVars, retryVars, mainVars, segVars, verifyVars,
                   dispatchVars, chunkerVars, extractVars>>

\* withRetry's catch block for the callback of the line-by-line call: another
\* attempt after the backoff, or the last error is thrown.
OnAttemptError(p) ==
    IF p.attempt < LineByLineAttempts
    THEN [p EXCEPT !.attempt = p.attempt + 1, !.sent = p.textsToTranslate]
    ELSE [p EXCEPT !.pc = "thrown", !.attempt = 0]

\* translateBatch returns result: the callback checks the count, and the
\* function puts the chunk together.
BatchReturns(result) ==
    /\ protector.pc = "awaiting"
    /\ protector' =
           IF Len(result) # Len(protector.textsToTranslate)
           THEN OnAttemptError(protector)
           ELSE ReturnOutput(protector, result)
    /\ UNCHANGED <<poolVars, retryVars, mainVars, segVars, verifyVars,
                   dispatchVars, chunkerVars, extractVars>>

\* translateBatch throws (the request failed or the answer had no usable form).
BatchThrows ==
    /\ protector.pc = "awaiting"
    /\ protector' = OnAttemptError(protector)
    /\ UNCHANGED <<poolVars, retryVars, mainVars, segVars, verifyVars,
                   dispatchVars, chunkerVars, extractVars>>

ProtectorNext ==
    \/ ClassifyAndSend
    \/ \E result \in BatchResults(protector.textsToTranslate) : BatchReturns(result)
    \/ BatchThrows

ProtectorSpec == ProtectorInit /\ [][ProtectorNext]_vars

(***************************************************************************)
(* Claims about translateMarkdownBlockLineByLine, checked under            *)
(* ProtectorSpec.                                                          *)
(***************************************************************************)
\* The text is one fenced block and nothing else: the fence pattern of the
\* segmenter matches at its start and the match ends at its end.
IsOneFencedBlock(text) == Len(text) > 0 /\ codeFenceAt(text, 0) = Len(text)

\* C22 as stated: for a chunk that consists only of one fenced block (opening
\* fence, content, closing fence) the function classifies every line as
\* literal, makes no call to the translation capability, and returns the chunk
\* text unchanged.
C22_FencedBlockIsLiteral ==
    (protector.pc # "called" /\ IsOneFencedBlock(protector.blockText)) =>
        /\ \A k \in 1..Len(protector.items) : protector.items[k].kind = "literal"
        /\ protector.sent = <<>>
        /\ protector.pc = "returned"
        /\ protector.out = protector.blockText

\* The line an item was made from: its text, after its prefix if it has one.
ItemSource(x) == IF x.kind = "literal" THEN x.text ELSE x.prefix \o x.text

\* C23: for every chunk text, prefix + text of all items, in order, joined by
\* line breaks, is the chunk text; and when the translation capability returns
\* every text unchanged the function returns the chunk text unchanged.
C23_ItemsRebuildChunk ==
    protector.pc # "called" =>
        /\ JoinLines([k \in 1..Len(protector.items) |-> ItemSource(protector.items[k])])
              = protector.blockText
        /\ (protector.pc = "returned"
            /\ protector.translatedParts = protector.textsToTranslate) =>
                protector.out = protector.blockText

\* Witness of C23: translateBatch returned the texts unchanged for a chunk with
\* literal lines and with two translatable lines, one of them with a prefix.
C23_Witness ==
    /\ protector.pc = "returned"
    /\ Len(protector.textsToTranslate) >= 2
    /\ protector.translatedParts = protector.textsToTranslate
    /\ \E k \in 1..Len(protector.items) : protector.items[k].kind = "literal"
    /\ \E k \in 1..Len(protector.items) :
          protector.items[k].kind = "translate" /\ protector.items[k].prefix # <<>>
    /\ protector.out = protector.blockText

\* The positions of the translatable items, in order.
TranslatablePositions(items) ==
    LET F[k \in 0..Len(items)] ==
            IF k = 0 THEN <<>>
            ELSE IF items[k].kind = "translate" THEN Append(F[k - 1], k)
            ELSE F[k - 1]
    IN  F[Len(items)]

\* What the claim expects at the position of item k: the literal text, or the
\* prefix followed by the j-th returned string when item k is the j-th
\* translatable item.
ExpectedLine(items, parts, k) ==
    IF items[k].kind = "literal" THEN items[k].text
    ELSE LET pos == TranslatablePositions(items)
             j == CHOOSE j \in 1..Len(pos) : pos[j] = k
         IN  items[k].prefix \o parts[j]

\* The texts were sent as one batch in the original order: every call of
\* translateBatch got the texts of all translatable lines of the chunk.
SentAsOneBatch ==
    LET lines == SplitLines(protector.blockText)
        pos == TranslatablePositions(protector.items)
    IN  /\ Len(protector.items) = Len(lines)
        /\ Len(protector.textsToTranslate) = Len(pos)
        /\ \A j \in 1..Len(pos) :
              /\ protector.textsToTranslate[j] = protector.items[pos[j]].text
              /\ ItemSource(protector.items[pos[j]]) = lines[pos[j]]
        /\ \A k \in 1..Len(protector.items) :
              protector.items[k].kind = "literal" => protector.items[k].text = lines[k]
        /\ protector.sent # <<>> => protector.sent = protector.textsToTranslate
        /\ protector.pc = "awaiting" => protector.sent # <<>>

\* C26 as stated: for every translation result the output has one line per
\* item in the original order, each literal line is emitted unchanged at its
\* position, each translatable line is its prefix followed by the k-th returned
\* string, and all translatable texts are sent in one batch in original order.
C26_OneLinePerItem ==
    /\ protector.pc # "called" => SentAsOneBatch
    /\ protector.pc = "returned" =>
          LET outLines == SplitLines(protector.out)
          IN  /\ Len(outLines) = Len(protector.items)
              /\ \A k \in 1..Len(protector.items) :
                    outLines[k] = ExpectedLine(protector.items, protector.translatedParts, k)

\* C26 amended: the output is one entry per item in the original order, joined
\* by line breaks: the literal text, or the prefix followed by the k-th returned
\* string; the entries are the lines of the output when no returned string
\* holds a line break; all translatable texts are sent in one batch in
\* original order.
C26_OneEntryPerItem ==
    /\ protector.pc # "called" => SentAsOneBatch
    /\ protector.pc = "returned" =>
          LET expected == [k \in 1..Len(protector.items) |->
                              ExpectedLine(protector.items, protector.translatedParts, k)]
          IN  /\ protector.out = JoinLines(expected)
              /\ (\A j \in 1..Len(protector.translatedParts) :
                     \A c \in 1..Len(protector.translatedParts[j]) :
                        protector.translatedParts[j][c] # "\n")
                 => SplitLines(protector.out) = expected

\* Witness of C26: translations came back for a chunk in which a literal line
\* stands before a translatable line with a prefix, after another translatable
\* line.
C26_Witness ==
    /\ protector.pc = "returned"
    /\ Len(protector.translatedParts) >= 2
    /\ protector.translatedParts[2] = <<"T", "2">>
    /\ \E a, b, c \in 1..Len(protector.items) :
          /\ a < b /\ b < c
          /\ protector.items[a].kind = "translate"
          /\ protector.items[b].kind = "literal"
          /\ protector.items[c].kind = "translate"
          /\ protector.items[c].prefix # <<>>
          /\ SplitLines(protector.out)[c]
                = protector.items[c].prefix \o protector.translatedParts[2]

(***************************************************************************)
(*        main.js: parseMarkdown(content), the line-based chunker,         *)
(*        with isPartOfList, isPartOfHeader, hasOngoingStructure and       *)
(*        isAtListBoundary                                                 *)
(***************************************************************************)
\* trimmed.match(/^[-*+]\s/) || trimmed.match(/^\d+\.\s/)
IsListItemStart(trimmed) ==
    \/ /\ Len(trimmed) >= 2
       /\ trimmed[1] \in {"-", "*", "+"}
       /\ trimmed[2] \in WhiteSpace
    \/ LET d == RunLength(trimmed, 0, Digits)
       IN  /\ d >= 1
           /\ HasAt(trimmed, d, <<".">>)
           /\ d + 1 < Len(trimmed)
           /\ trimmed[d + 2] \in WhiteSpace

\* line.match(/^\s*/)[0].length
IndentOf(line) == RunLength(line, 0, WhiteSpace)

\* The backward for loop of isPartOfList from line i (0-based) down to 0.
RECURSIVE NearestListItemAbove(_, _, _)
NearestListItemAbove(lines, i, currentIndent) ==
    IF i < 0 THEN FALSE
    ELSE LET prevLine == lines[i + 1]
             prevTrimmed == Trim(prevLine)
         IN  IF prevTrimmed = <<>> THEN NearestListItemAbove(lines, i - 1, currentIndent)
             ELSE IF IsListItemStart(prevTrimmed) THEN TRUE
             ELSE IF IndentOf(prevLine) < currentIndent /\ IndentOf(prevLine) = 0 THEN FALSE
             ELSE NearestListItemAbove(lines, i - 1, currentIndent)

isPartOfList(lines, index) ==
    LET line == lines[index + 1]
        trimmed == Trim(line)
    IN  IF IsListItemStart(trimmed) THEN TRUE
        ELSE IF IndentOf(line) > 0 /\ trimmed # <<>>
             THEN NearestListItemAbove(lines, index - 1, IndentOf(line))
             ELSE FALSE

\* nextLine.match(/^=+$/) || nextLine.match(/^-+$/)
IsSetextUnderline(trimmed) ==
    /\ Len(trimmed) >= 1
    /\ \/ \A k \in 1..Len(trimmed) : trimmed[k] = "="
       \/ \A k \in 1..Len(trimmed) : trimmed[k] = "-"

isPartOfHeader(lines, index) ==
    \/ HasAt(Trim(lines[index + 1]), 0, <<"#">>)
    \/ index + 1 < Len(lines) /\ IsSetextUnderline(Trim(lines[index + 2]))

hasOngoingStructure(lines, index) ==
    /\ index + 1 < Len(lines)
    /\ LET nextLine == lines[index + 2]
           trimmed == Trim(nextLine)
       IN  \/ /\ IndentOf(nextLine) >= 1
              /\ IndentOf(nextLine) < Len(nextLine)
              /\ trimmed # <<>>
           \/ \E k \in 1..Len(trimmed) : trimmed[k] = "|"
           \/ /\ Len(trimmed) >= 1
              /\ \A k \in 1..Len(trimmed) : trimmed[k] \in {"-", "|", ":"} \cup WhiteSpace

\* The forward for loop of isAtListBoundary from line i (0-based) on.
RECURSIVE NextLineEndsItem(_, _)
NextLineEndsItem(lines, i) ==
    IF i >= Len(lines) THEN TRUE
    ELSE LET nextLine == lines[i + 1]
             nextTrimmed == Trim(nextLine)
         IN  IF nextTrimmed = <<>> THEN NextLineEndsItem(lines, i + 1)
             ELSE IF IsListItemStart(nextTrimmed) \/ HasAt(nextTrimmed, 0, <<"#">>) THEN TRUE
             ELSE IF IndentOf(nextLine) > 0 THEN FALSE
             ELSE TRUE

isAtListBoundary(lines, index) ==
    IF ~isPartOfList(lines, index) THEN TRUE ELSE NextLineEndsItem(lines, index + 1)

\* trimmed.startsWith('# ') || ... || trimmed.startsWith('###### ')
StartsWithAtxMarker(trimmed) ==
    LET h == RunLength(trimmed, 0, {"#"})
    IN  h >= 1 /\ h <= 6 /\ HasAt(trimmed, h, <<" ">>)

isNaturalBreak(trimmed, currentChunk) ==
    \/ trimmed = <<>> /\ Trim(currentChunk) # <<>>
    \/ StartsWithAtxMarker(trimmed)

\* chunks.push({index: String(chunkIndex++), text: currentChunk.trim()}) when
\* currentChunk.trim() is not empty.
PushChunk(chunks, currentChunk) ==
    IF Trim(currentChunk) # <<>>
    THEN Append(chunks, [index |-> Len(chunks) + 1, text |-> Trim(currentChunk)])
    ELSE chunks

\* The condition under which the loop body starts a new chunk at line i.
BreaksBefore(lines, i, testChunk, currentChunk, inCodeBlock) ==
    LET trimmed == Trim(lines[i + 1])
        shouldBreak == ByteLength(testChunk) > BreakThreshold /\ currentChunk # <<>>
        isBreakSafe == /\ ~inCodeBlock
                       /\ ~isPartOfList(lines, i)
                       /\ ~isPartOfHeader(lines, i)
        isAtSafeListBoundary == ~isPartOfList(lines, i) \/ isAtListBoundary(lines, i)
    IN  /\ shouldBreak
        /\ isBreakSafe
        /\ isAtSafeListBoundary
        /\ (isNaturalBreak(trimmed, currentChunk) \/ ~hasOngoingStructure(lines, i))

\* The for loop over lines from line i (0-based) on.  st holds currentChunk,
\* chunks and inCodeBlock; st.starts lists, for every chunk pushed by the loop
\* body, the line at which the next chunk starts.
RECURSIVE ChunkLines(_, _, _)
ChunkLines(lines, i, st) ==
    IF i >= Len(lines) THEN [st EXCEPT !.chunks = PushChunk(st.chunks, st.currentChunk)]
    ELSE LET line == lines[i + 1]
             inCodeBlock == IF HasAt(Trim(line), 0, <<Backtick, Backtick, Backtick>>)
                            THEN ~st.inCodeBlock ELSE st.inCodeBlock
             testChunk == st.currentChunk
                          \o (IF st.currentChunk # <<>> THEN <<"\n">> ELSE <<>>) \o line
         IN  IF BreaksBefore(lines, i, testChunk, st.currentChunk, inCodeBlock)
             THEN ChunkLines(lines, i + 1,
                             [currentChunk |-> line,
                              chunks |-> PushChunk(st.chunks, st.currentChunk),
                              inCodeBlock |-> inCodeBlock,
                              starts |-> IF Trim(st.currentChunk) # <<>>
                                         THEN Append(st.starts, i) ELSE st.starts])
             ELSE ChunkLines(lines, i + 1,
                             [st EXCEPT !.currentChunk = testChunk,
                                        !.inCodeBlock = inCodeBlock])

\* content.split(/\r?\n/): the pieces between the line feeds, each without the
\* carriage return that stood before its line feed.
SplitOnLineBreaks(content) ==
    LET ls == SplitLines(content)
    IN  [k \in 1..Len(ls) |->
            IF k < Len(ls) /\ Len(ls[k]) > 0 /\ ls[k][Len(ls[k])] = "\r"
            THEN SubSeq(ls[k], 1, Len(ls[k]) - 1)
            ELSE ls[k]]

\* parseMarkdown(content) of main.js: the chunks, and the lines at which the
\* chunks after the first start.
parseMarkdownByLines(content) ==
    IF ByteLength(content) > BYTES_PER_CHUNK
    THEN LET st == ChunkLines(SplitOnLineBreaks(content), 0,
                              [currentChunk |-> <<>>, chunks |-> <<>>,
                               inCodeBlock |-> FALSE, starts |-> <<>>])
         IN  [chunks |-> st.chunks, starts |-> st.starts]
    ELSE [chunks |-> <<[index |-> 1, text |-> Trim(content)]>>, starts |-> <<>>]

\* The lines the documents of the chunker are made of: a long line of prose (as
\* long as BYTES_PER_CHUNK), a list item, an indented line, a blank line, a
\* short line of prose and a header.
LongLine == [k \in 1..BYTES_PER_CHUNK |-> "x"]

ChunkerLines ==
    { LongLine, <<"-", " ", "a">>, <<" ", " ", "b">>, <<>>, <<"c">>, <<"#", " ", "h">> }

ChunkerDocuments ==
    {JoinLines(ls) : ls \in UNION {[1..n -> ChunkerLines] : n \in 1..MaxDocLines}}

ChunkerInit ==
    /\ \E content \in ChunkerDocuments :
          chunker = [pc |-> "read", content |-> content, chunks |-> <<>>, starts |-> <<>>]
    /\ pool = Unused
    /\ settleOrder = Unused
    /\ retry = Unused
    /\ main = Unused
    /\ seg = Unused
    /\ verify = Unused
    /\ dispatch = Unused
    /\ protector = Unused
    /\ extract = Unused

\* blocks = parseMarkdown(content)
ChunkDocument ==
    /\ chunker.pc = "read"
    /\ LET r == parseMarkdownByLines(chunker.content)
       IN  chunker' = [chunker EXCEPT !.pc = "parsed", !.chunks = r.chunks,
                                      !.starts = r.starts]
    /\ UNCHANGED <<poolVars, retryVars, mainVars, segVars, verifyVars,
                   dispatchVars, protectorVars, extractVars>>

ChunkerNext == ChunkDocument

ChunkerSpec == ChunkerInit /\ [][ChunkerNext]_vars

(***************************************************************************)
(* Claims about the line-based chunker, checked under ChunkerSpec.         *)
(***************************************************************************)
IsItemLine(line) == IsListItemStart(Trim(line))

\* An indented line with text that is not itself a list item.
IsIndentedContinuation(line) ==
    IndentOf(line) > 0 /\ Trim(line) # <<>> /\ ~IsItemLine(line)

\* Line c is an indented continuation line of the list item that starts at line
\* a (lines counted from 1): only blank lines and indented continuation lines
\* stand between them.
ContinuesItem(lines, a, c) ==
    /\ a < c
    /\ IsItemLine(lines[a])
    /\ IsIndentedContinuation(lines[c])
    /\ \A k \in (a + 1)..(c - 1) :
          Trim(lines[k]) = <<>> \/ IsIndentedContinuation(lines[k])

\* The chunk boundary before line first splits the item of line a: the last
\* line with text before the boundary is an indented continuation line of the
\* item, and the first line with text after the boundary is one too.
SplitsItem(lines, a, first) ==
    \E p \in 1..(first - 1), q \in first..Len(lines) :
        /\ \A k \in (p + 1)..(q - 1) : Trim(lines[k]) = <<>>
        /\ ContinuesItem(lines, a, p)
        /\ ContinuesItem(lines, a, q)

\* C24 as stated: the chunker never fragments a list item: for every document
\* larger than the chunk budget no chunk ends with an indented continuation
\* line of a list item while the next chunk starts with a continuation of the
\* same item.
C24_ListItemNotFragmented ==
    (chunker.pc = "parsed" /\ ByteLength(chunker.content) > BYTES_PER_CHUNK) =>
        LET lines == SplitOnLineBreaks(chunker.content)
        IN  \A b \in 1..Len(chunker.starts) :
                \A a \in 1..Len(lines) : ~SplitsItem(lines, a, chunker.starts[b] + 1)

(***************************************************************************)
(*               extractMarkdownCodeBlocks(text), line by line             *)
(* (the format verifier of checkMarkdownFormat compares its results for    *)
(* the original and the translated chunk)                                  *)
(***************************************************************************)
\* [^`\n]+ from index p: the characters up to the next backtick or line feed.
RECURSIVE SpanBodyLength(_, _)
SpanBodyLength(s, p) ==
    IF p < Len(s) /\ s[p + 1] # Backtick /\ s[p + 1] # "\n"
    THEN 1 + SpanBodyLength(s, p + 1) ELSE 0

\* line.match(/`[^`\n]+`/g): the number of matches from index p on.
RECURSIVE InlineCodeMatches(_, _)
InlineCodeMatches(line, p) ==
    IF p >= Len(line) THEN 0
    ELSE LET n == SpanBodyLength(line, p + 1)
         IN  IF line[p + 1] = Backtick /\ n >= 1 /\ HasAt(line, p + 1 + n, <<Backtick>>)
             THEN 1 + InlineCodeMatches(line, p + n + 2)
             ELSE InlineCodeMatches(line, p + 1)

inlineEntry(i) ==
    [type |-> "inline", language |-> <<>>, content |-> <<>>, line |-> i + 1]

\* line.trim().match(/^(```|~~~)(.*)$/)
codeFenceMatch(line) ==
    FenceOpenAt(Trim(line), 0) # <<>> /\ RestToEnd(Trim(line), 3)

NoBlock == [type |-> "none"]

\* currentBlock = {type: 'block', language, content: '', startLine, fence}
OpenBlock(line, i) ==
    [type |-> "block", language |-> Trim(SliceFrom(Trim(line), 3)), content |-> <<>>,
     startLine |-> i + 1, fence |-> FenceOpenAt(Trim(line), 0)]

\* The block as pushed: with endLine, and marked unclosed at the end of text.
ClosedBlock(block, endLine, unclosed) ==
    [type |-> "block", language |-> block.language, content |-> block.content,
     startLine |-> block.startLine, fence |-> block.fence, endLine |-> endLine,
     unclosed |-> unclosed]

indentedEntry(line, i) ==
    [type |-> "indented", language |-> <<>>, content |-> SliceFrom(line, 4), line |-> i + 1]

\* line.match(/^    /)
StartsWithFourSpaces(line) == HasAt(line, 0, <<" ", " ", " ", " ">>)

\* An indented line is reported whatever list it stands in.
ReportsIndentedInLists(lines, i) ==
    LET prevLine == IF i > 0 THEN lines[i] ELSE <<>>
    IN  Trim(prevLine) = <<>> \/ StartsWithFourSpaces(prevLine)

\* (prevLine.trim() === '' || prevLine.match(/^    /)) && !isPartOfList(lines, i)
ReportsIndented(lines, i) ==
    LET prevLine == IF i > 0 THEN lines[i] ELSE <<>>
    IN  /\ Trim(prevLine) = <<>> \/ StartsWithFourSpaces(prevLine)
        /\ ~isPartOfList(lines, i)

\* The for loop over lines from line i (0-based) on; st holds codeBlocks,
\* inCodeBlock and currentBlock.
RECURSIVE ExtractLines(_, _, _)
ExtractLines(lines, i, st) ==
    IF i >= Len(lines)
    THEN IF st.inCodeBlock
         THEN Append(st.codeBlocks, ClosedBlock(st.currentBlock, Len(lines), TRUE))
         ELSE st.codeBlocks
    ELSE LET line == lines[i + 1]
             inlines == IF st.inCodeBlock THEN <<>>
                        ELSE [k \in 1..InlineCodeMatches(line, 0) |-> inlineEntry(i)]
             s == [st EXCEPT !.codeBlocks = st.codeBlocks \o inlines]
             withLine == [s EXCEPT !.currentBlock.content = @ \o line \o <<"\n">>]
         IN  IF codeFenceMatch(line)
             THEN IF ~s.inCodeBlock
                  THEN ExtractLines(lines, i + 1,
                                    [s EXCEPT !.currentBlock = OpenBlock(line, i),
                                              !.inCodeBlock = TRUE])
                  ELSE IF FenceOpenAt(Trim(line), 0) = s.currentBlock.fence
                  THEN ExtractLines(lines, i + 1,
                                    [s EXCEPT !.codeBlocks =
                                                  Append(s.codeBlocks,
                                                         ClosedBlock(s.currentBlock, i + 1, FALSE)),
                                              !.currentBlock = NoBlock,
                                              !.inCodeBlock = FALSE])
                  ELSE ExtractLines(lines, i + 1, withLine)
             ELSE IF s.inCodeBlock
             THEN ExtractLines(lines, i + 1, withLine)
             ELSE IF StartsWithFourSpaces(line) /\ Trim(line) # <<>> /\ ReportsIndented(lines, i)
             THEN ExtractLines(lines, i + 1,
                               [s EXCEPT !.codeBlocks = Append(s.codeBlocks, indentedEntry(line, i))])
             ELSE ExtractLines(lines, i + 1, s)

\* extractMarkdownCodeBlocks(text), on the characters of text
CodeBlocksOf(text) ==
    ExtractLines(SplitLines(text), 0,
                 [codeBlocks |-> <<>>, inCodeBlock |-> FALSE, currentBlock |-> NoBlock])

\* The lines the texts of the model are made of: list items with and without an
\* inline code span, continuation lines indented by four spaces with and
\* without spans, a blank line, a line of prose and a fence.
ExtractLineChoices ==
    { <<"-", " ", Backtick, "a", Backtick>>, <<"-", " ", "b">>,
      <<" ", " ", " ", " ", Backtick, "c", Backtick, " ", Backtick, "d", Backtick>>,
      <<" ", " ", " ", " ", "e">>, <<>>, <<"p">>,
      <<Backtick, Backtick, Backtick>> }

ExtractTexts ==
    {JoinLines(ls) : ls \in UNION {[1..n -> ExtractLineChoices] : n \in 1..MaxExtractLines}}

ExtractInit ==
    /\ \E text \in ExtractTexts :
          extract = [pc |-> "called", text |-> text, codeBlocks |-> <<>>]
    /\ pool = Unused
    /\ settleOrder = Unused
    /\ retry = Unused
    /\ main = Unused
    /\ seg = Unused
    /\ verify = Unused
    /\ dispatch = Unused
    /\ protector = Unused
    /\ chunker = Unused

\* codeBlocks = extractMarkdownCodeBlocks(text)
ExtractCodeBlocks ==
    /\ extract.pc = "called"
    /\ extract' = [extract EXCEPT !.pc = "returned",
                                  !.codeBlocks = CodeBlocksOf(extract.text)]
    /\ UNCHANGED <<poolVars, retryVars, mainVars, segVars, verifyVars,
                   dispatchVars, protectorVars, chunkerVars>>

ExtractNext == ExtractCodeBlocks

ExtractSpec == ExtractInit /\ [][ExtractNext]_vars

(***************************************************************************)
(* Claims about extractMarkdownCodeBlocks, checked under ExtractSpec.      *)
(***************************************************************************)
\* The number of inline code spans of a line whose backticks pair up around
\* text that is not empty.
SpanCount(line) == Cardinality({k \in 1..Len(line) : line[k] = Backtick}) \div 2

HasPlainSpansOnly(line) ==
    /\ Cardinality({k \in 1..Len(line) : line[k] = Backtick}) % 2 = 0
    /\ \A k \in 1..(Len(line) - 1) : ~(line[k] = Backtick /\ line[k + 1] = Backtick)

\* The text is a list: it starts with a list item, every other line is a list
\* item, an indented line or a blank line, and the only code in it is inline
\* code spans.
IsListWithSpans(lines) ==
    /\ IsItemLine(lines[1])
    /\ \A k \in 1..Len(lines) :
          /\ IsItemLine(lines[k]) \/ IndentOf(lines[k]) > 0 \/ Trim(lines[k]) = <<>>
          /\ HasPlainSpansOnly(lines[k])

\* One 'inline' entry per span, line after line.
RECURSIVE InlineEntriesFrom(_, _)
InlineEntriesFrom(lines, k) ==
    IF k > Len(lines) THEN <<>>
    ELSE [j \in 1..SpanCount(lines[k]) |->
             [type |-> "inline", language |-> <<>>, content |-> <<>>, line |-> k]]
         \o InlineEntriesFrom(lines, k + 1)

\* C25: a line indented by four or more spaces that belongs to a list item
\* (isPartOfList is true for it) has no entry of type 'indented', and a list
\* whose items hold only inline code spans yields one 'inline' entry per span
\* and nothing else.
C25_ListLinesAreNotCode ==
    extract.pc = "returned" =>
        LET lines == SplitLines(extract.text)
        IN  /\ \A e \in 1..Len(extract.codeBlocks) :
                  extract.codeBlocks[e].type = "indented" =>
                      ~isPartOfList(lines, extract.codeBlocks[e].line - 1)
            /\ IsListWithSpans(lines) =>
                  extract.codeBlocks = InlineEntriesFrom(lines, 1)

\* Witness of C25: a list whose item has a span, and after a blank line a
\* continuation line indented by four spaces with two spans: three 'inline'
\* entries.
C25_Witness ==
    /\ extract.pc = "returned"
    /\ LET lines == SplitLines(extract.text)
       IN  /\ IsListWithSpans(lines)
           /\ \E k \in 2..(Len(lines) - 1) :
                 /\ Trim(lines[k]) = <<>>
                 /\ StartsWithFourSpaces(lines[k + 1])
                 /\ SpanCount(lines[k + 1]) = 2
    /\ Len(extract.codeBlocks) = 3

=============================================================================
